---- MODULE Spec2Model ----
(***************************************************************************)
(* State-machine model of RooUnfoldT (src/src/RooUnfold.cxx): the lazy     *)
(* result cache, the error-treatment dispatch of UnfoldWithErrors, the toy *)
(* engine (RunToys / RunToy / GetErrMat) and the setters that rebind the   *)
(* response and the measured input.                                        *)
(*                                                                         *)
(* Vectors are sequences of naturals.  Matrices are kept by their shape    *)
(* <<rows, cols>>; the variance, bias and measured-error vectors by their  *)
(* length.  A C++ pointer is a sequence of length 0 (null) or 1 (the       *)
(* pointee).  The unfolding strategy (Unfold, GetCov) and the SVD solver   *)
(* are external: what they report is an input of the operation, drawn from *)
(* Oracle.                                                                 *)
(***************************************************************************)
EXTENDS Integers, Sequences, FiniteSets, TLC

VARIABLES eng, last, watch

vars == <<eng, last, watch>>

\* ------------------------------------------------------------------ bounds
MaxBins == 2
MaxToys == 2
\* the largest content of a truth bin that is folded
MaxCount == 2

\* ------------------------------------------------------------- enumerations
kNoError == "kNoError"
kErrors == "kErrors"
kCovariance == "kCovariance"
kCovToy == "kCovToy"
kRooFit == "kRooFit"
kDefault == "kDefault"
ErrorTreatment == {kNoError, kErrors, kCovariance, kCovToy, kRooFit, kDefault}

kNoSystematics == "kNoSystematics"
kNoMeasured == "kNoMeasured"
kAll == "kAll"
SystematicsTreatment == {kNoSystematics, kNoMeasured, kAll}

kBiasEstimator == "kBiasEstimator"
kBiasClosure == "kBiasClosure"
kBiasAsimov == "kBiasAsimov"
kBiasOther == "kBiasOther"
BiasMethod == {kBiasEstimator, kBiasClosure, kBiasAsimov, kBiasOther}

\* Init(): _NToys = 50
DefaultNToys == 50

\* default arguments of the declarations of EunfoldV and Chi2
EunfoldVDefault == kErrors
Chi2Default == kCovariance

\* ------------------------------------------------------------ environment
\* What the external strategy and solver report during one operation:
\* Unfold() leaves the unfolded flag clear ("ufail"), GetCov() leaves the
\* covariance flag clear ("cfail"), the SVD inversion fails ("ifail"), or
\* all three succeed ("ok").
Oracle == {"ufail", "cfail", "ifail", "ok"}
\* randomize(): the shift a toy applies to every measured bin; a toy is
\* taken to move its input, so that a toy's vector differs from the measured one
Noise == {1}
ToyOracle == [o : Oracle, noise : Noise]
ToySeqs(k) == [1..k -> ToyOracle]

\* the responses a caller can bind: measured and truth bin counts
Responses == [nm : {MaxBins}, nt : 1..MaxBins]
\* the measured histograms of n bins a caller can supply
Hists(n) == {[i \in 1..n |-> v + i - 1] : v \in {1, 2}}

\* measured histograms of n bins, the first of which may be empty
EmptyBinHists(n) == {[i \in 1..n |-> v + i - 1] : v \in 0..1}
\* the reference histograms of n bins a caller can compare with
Refs(n) == {[i \in 1..n |-> v + i - 1] : v \in 0..2}

\* the response matrices of n x n bins a truth is folded through
Matrices(n) == [1..n -> [1..n -> 0..1]]
\* the truth vectors of n bins
Truths(n) == [1..n -> 0..MaxCount]

\* ---------------------------------------------------------------- helpers
Min(a, b) == IF a < b THEN a ELSE b
Max(a, b) == IF a > b THEN a ELSE b

\* TVectorD::ResizeTo keeps the old entries and zero-fills the new ones
ResizeTo(v, n) == [i \in 1..n |-> IF i <= Len(v) THEN v[i] ELSE 0]

\* TMatrixD::ResizeTo on the entries of a matrix kept as a sequence of rows
ResizeMat(m, r, c) ==
  [i \in 1..r |-> [j \in 1..c |-> IF i <= Len(m) /\ j <= Len(m[i]) THEN m[i][j] ELSE <<0>>]]

\* A double is <<v>>, or <<>> for the NaN that TVectorD and TMatrixD give
\* for an index outside their range; arithmetic on NaN gives NaN.
NaN == <<>>
At(x, i) == IF i <= Len(x) THEN <<x[i]>> ELSE NaN
Plus(a, b) == IF a = NaN \/ b = NaN THEN NaN ELSE <<a[1] + b[1]>>
Minus(a, b) == IF a = NaN \/ b = NaN THEN NaN ELSE <<a[1] - b[1]>>
Times(a, b) == IF a = NaN \/ b = NaN THEN NaN ELSE <<a[1] * b[1]>>
\* fabs
fabs(a) == IF a = NaN THEN NaN ELSE IF a[1] < 0 THEN <<0 - a[1]>> ELSE a
\* element i of a vector of doubles
AtD(v, i) == IF i <= Len(v) THEN v[i] ELSE NaN
\* TVectorD::ResizeTo on a vector of doubles
ResizeD(v, n) == [i \in 1..n |-> IF i <= Len(v) THEN v[i] ELSE <<0>>]

\* h2ve, squared: the bin errors of a histogram; the histograms of the model
\* are unweighted, the squared error of a bin is its content
h2ve2(h) == [i \in 1..Len(h) |-> fabs(<<h[i]>>)]

\* h2v: the flat vector of a histogram
h2v(h) == h

\* ------------------------------------------------------------------ Cache
\* Cache::Cache(); matrices are kept by their shape and vectors by their
\* length, with the diagonal of _cov in cov_d and the entries of _variances
\* in var_v; _eMes is kept by the squares of its entries; err_num holds the
\* entries of _err_mat, each multiplied by err_den = N (N - 1) for the N
\* toys it was computed from, which keeps them integers;
\* ucalls, ufail, efail, ifail and rec0 are observation fields of
\* the generation: Unfold() calls, whether Unfold() left the flag clear,
\* whether an error computation failed, whether the last inversion of _cov
\* failed, the result stored by Unfold().
Cache ==
  [unfolded |-> FALSE, fail |-> FALSE, haveCov |-> FALSE, haveWgt |-> FALSE,
   have_err_mat |-> FALSE, haveBias |-> FALSE, haveErrors |-> FALSE,
   rec |-> <<0>>, cov |-> <<1, 1>>, wgt |-> <<1, 1>>, variances |-> 1,
   err_mat |-> <<1, 1>>, err_num |-> <<<<<<0>>>>>>, bias |-> 1, sigbias |-> 1,
   err_den |-> 1, cov_d |-> <<<<0>>>>, var_v |-> <<<<0>>>>,
   vMes |-> <<>>, eMes |-> <<>>, covL |-> <<>>, covMes |-> <<>>,
   ucalls |-> 0, ufail |-> FALSE, efail |-> FALSE, ifail |-> FALSE, rec0 |-> <<>>]

\* _cache = Cache()
ClearCache(e) == [e EXCEPT !.cache = Cache]

\* ForceRecalculation: _cache = Cache(); _res->ClearCache()
ForceRecalculation(e) == [e EXCEPT !.cache = Cache]

\* Init(): every member it assigns (_withError is not among them)
InitMembers(e) ==
  [e EXCEPT !.res = <<>>, !.meas = <<>>, !.nm = 0, !.nt = 0,
            !.dosys = kNoSystematics, !.covMes = <<>>, !.NToys = DefaultNToys]

\* Reset(): ClearCache(); Init()
Reset(e) == InitMembers(ClearCache(e))

\* SetResponse(res) for a non-null res
SetResponse(e, r) == [e EXCEPT !.res = <<r>>, !.nm = r.nm, !.nt = r.nt]

\* SetMeasured(const Hist*)
SetMeasured(e, h) == [e EXCEPT !.meas = <<h>>, !.cache = Cache]

\* SetMeasuredCov(cov)
SetMeasuredCov(e, cov) == [e EXCEPT !.cache = Cache, !.covMes = <<cov>>]

\* a Setup that rebinds the inputs and leaves the cache as it was
SetupKeepsCache(e, r, h) == [SetResponse(InitMembers(e), r) EXCEPT !.meas = <<h>>]

\* Setup(res, meas) for a non-null res: Reset(); SetResponse(res); SetMeasured(meas)
Setup(e, r, h) == SetMeasured(SetResponse(Reset(e), r), h)

\* a SetResponse that binds a null response as if it were one
SetResponseBindsNull(e, res) ==
  IF res = <<>>
    THEN [e |-> [e EXCEPT !.res = <<>>, !.nm = 0, !.nt = 0], ret |-> "void"]
    ELSE [e |-> SetResponse(e, res[1]), ret |-> "void"]

\* SetResponse(res) for a pointer res: throws on the null pointer before
\* any member is touched
SetResponseOf(e, res) ==
  IF res = <<>>
    THEN [e |-> e, ret |-> "throw"]
    ELSE [e |-> SetResponse(e, res[1]), ret |-> "void"]

\* the rest of Setup after SetResponse: SetMeasured(meas) unless it threw
SetupMeasured(r, h) ==
  IF r.ret = "throw" THEN r ELSE [e |-> SetMeasured(r.e, h), ret |-> "void"]

\* Setup(res, meas) for a pointer res: Reset(); SetResponse(res); SetMeasured(meas)
SetupOf(e, res, h) == SetupMeasured(SetResponseOf(Reset(e), res), h)

\* Vmeasured(): fills _cache._vMes on first use
Vmeasured(e) ==
  IF e.cache.vMes = <<>>
    THEN [e EXCEPT !.cache.vMes = <<h2v(e.meas[1])>>]
    ELSE e

\* Emeasured(): fills _cache._eMes on first use
Emeasured(e) ==
  IF e.cache.eMes = <<>>
    THEN IF e.covMes # <<>>
           THEN [e EXCEPT !.cache.eMes =
                   <<[i \in 1..e.nm |->
                        IF AtD(e.cache.cov_d, i) # NaN /\ AtD(e.cache.cov_d, i)[1] > 0
                          THEN e.cache.cov_d[i] ELSE <<0>>]>>]
           ELSE [e EXCEPT !.cache.eMes = <<h2ve2(e.meas[1])>>]
    ELSE e

\* SetMeasured(const TVectorD&, const TVectorD&): no cache reset
SetMeasuredVecErr(e, v) == [e EXCEPT !.meas = <<v>>]

\* SetMeasured(const TVectorD&, const TMatrixD&)
SetMeasuredVecCov(e, v, cov) == SetMeasuredVecErr(Emeasured(SetMeasuredCov(e, cov)), v)

\* GetMeasuredCov(): _covMes if set, else a new diagonal _cache._covMes
GetMeasuredCov(e) ==
  IF e.covMes # <<>>
    THEN e
    ELSE [Emeasured(e) EXCEPT !.cache.covMes = <<<<e.nm, e.nm>>>>]

\* the diagonal of the matrix GetMeasuredCov() returns: a covariance the
\* caller has set is the unit matrix of its shape, else the squares of
\* Emeasured()
covmeas(g) ==
  IF g.covMes # <<>>
    THEN [i \in 1..g.covMes[1][1] |-> <<1>>]
    ELSE [i \in 1..g.nm |-> AtD(g.cache.eMes[1], i)]

\* the diagonal GetCov() stores: covmeas(i,i) for i < min(_nm,_nt) in a
\* matrix resized to _nt x _nt
GetCovDiagonal(g, d) ==
  [g EXCEPT !.cache.cov_d =
     [i \in 1..g.nt |-> IF i <= Min(g.nm, g.nt) THEN AtD(d, i) ELSE ResizeD(@, g.nt)[i]]]

\* the call-count instrumentation point of Unfold()
UnfoldCalled(e) ==
  [e EXCEPT !.cache.ucalls = Min(2, @ + 1),
            !.peak = Min(2, Max(@, e.cache.ucalls + 1)),
            !.acalls = Min(2, @ + 1)]

\* the call-count instrumentation point of the error routines: GetCov(),
\* the inversion of GetWgt() and of Wunfold(), GetErrMat()
ErrorRoutineCalled(e) == [e EXCEPT !.ecalls = 1]

\* the call-count instrumentation point of a toy repetition
ToyRun(e) == [e EXCEPT !.tcalls = 1]

\* an algorithm that sets the flag and copies nothing
UnfoldCopiesNothing(m) ==
  [m EXCEPT !.cache.rec = ResizeTo(@, m.nt), !.cache.unfolded = TRUE,
            !.cache.rec0 = <<ResizeTo(m.cache.rec, m.nt)>>]

\* the base algorithm on the measured vector m.cache.vMes: the first
\* min(nm,nt) measured bins are copied into the result, resized to nt
UnfoldCopy(m) ==
  LET vmeas == m.cache.vMes[1]
      nb == Min(m.nm, m.nt)
      old == ResizeTo(m.cache.rec, m.nt)
      rec == [i \in 1..m.nt |-> IF i <= nb THEN vmeas[i] ELSE old[i]]
  IN [m EXCEPT !.cache.rec = rec, !.cache.unfolded = TRUE, !.cache.rec0 = <<rec>>]

\* Unfold(): the strategy.  It either leaves the unfolded flag clear or
\* stores a result and sets the flag.
Unfold(e, o) ==
  IF o = "ufail"
    THEN [UnfoldCalled(e) EXCEPT !.cache.ufail = TRUE]
    ELSE UnfoldCopy(Vmeasured(UnfoldCalled(e)))

\* GetCov(): the strategy; the base version truncates the measured covariance
GetCov(e, o) ==
  IF o = "cfail"
    THEN ErrorRoutineCalled(e)
    ELSE [GetCovDiagonal(GetMeasuredCov(ErrorRoutineCalled(e)),
                         covmeas(GetMeasuredCov(e)))
            EXCEPT !.cache.cov = <<e.nt, e.nt>>, !.cache.haveCov = TRUE]

\* the condition number of the decomposition, by the tests made on it
Conditions == {"negative", "normal", "large"}

\* an InvertMatrix that reads the condition number before the solver's status
InvertMatrixCondFirst(mat, cond, okinv) ==
  [inv |-> <<mat[2], mat[1]>>,
   status |-> IF cond = "negative" THEN 2
              ELSE IF cond = "large" THEN 3
              ELSE IF ~okinv THEN 0 ELSE 1]

\* InvertMatrix(mat, inv): status 0 when the solver fails, else 2 for a
\* negative condition number, 3 for one above 1e17, 1 otherwise; inv is
\* resized to (columns x rows) of mat before the solver's status is read.
InvertMatrix(mat, cond, okinv) ==
  [inv |-> <<mat[2], mat[1]>>,
   status |-> IF ~okinv THEN 0
              ELSE IF cond = "negative" THEN 2
              ELSE IF cond = "large" THEN 3 ELSE 1]

\* GetWgt() once GetCov() has run: the inversion of the covariance
GetWgtInvert(c, o) ==
  IF ~c.cache.haveCov
    THEN c
    ELSE LET r == InvertMatrix(c.cache.cov, "normal", o # "ifail")
         IN [ErrorRoutineCalled(c) EXCEPT
               !.cache.wgt = r.inv,
               !.cache.ifail = (r.status = 0),
               !.cache.haveWgt = IF r.status = 0 THEN @ ELSE TRUE]

\* GetWgt()
GetWgt(e, o) == GetWgtInvert(IF ~e.cache.haveCov THEN GetCov(e, o) ELSE e, o)

\* GetErrorsCovariance() once GetCov() has run: the diagonal of the covariance
GetErrorsDiagonal(c) ==
  IF ~c.cache.haveCov
    THEN [e |-> c, thrown |-> FALSE]
    ELSE [e |-> [c EXCEPT !.cache.variances = c.nt,
                          !.cache.var_v = [i \in 1..c.nt |-> AtD(c.cache.cov_d, i)],
                          !.cache.haveErrors = TRUE],
          thrown |-> FALSE]

\* GetErrorsCovariance() (GetErrors): [e, thrown]
GetErrors(e, o) ==
  IF e.withError # kErrors
    THEN [e |-> e, thrown |-> TRUE]
    ELSE GetErrorsDiagonal(IF ~e.cache.haveCov THEN GetCov(e, o) ELSE e)

\* the end of Vunfold(): the fail flag when the result is not there
VunfoldResult(u) ==
  IF ~u.cache.unfolded
    THEN [u EXCEPT !.cache.fail = TRUE,
                   !.cache.rec = IF u.nt > 0 /\ Len(@) = 0
                                   THEN ResizeTo(@, u.nt) ELSE @]
    ELSE u

\* a Vunfold that runs the strategy although the result is cached
VunfoldRecomputes(e, o) ==
  VunfoldResult(IF ~e.cache.fail THEN Unfold(e, o) ELSE e)

\* a Vunfold that retries the strategy although it has failed
VunfoldRetries(e, o) ==
  IF ~e.cache.unfolded THEN VunfoldResult(Unfold(e, o)) ELSE e

\* a Vunfold that raises the fail flag whatever the strategy left
VunfoldFlagsFail(e, o) ==
  IF ~e.cache.unfolded
    THEN [(IF ~e.cache.fail THEN Unfold(e, o) ELSE e) EXCEPT !.cache.fail = TRUE]
    ELSE e

\* Vunfold(): the engine afterwards; the value returned is its cache.rec
Vunfold(e, o) ==
  IF ~e.cache.unfolded
    THEN VunfoldResult(IF ~e.cache.fail THEN Unfold(e, o) ELSE e)
    ELSE e

\* randomize(*_cache._vMes, rnd): every bin shifted by the drawn noise
randomize(v, noise) == [i \in 1..Len(v) |-> v[i] + noise]

\* an ok that is never updated from the flags
okStaysTrue(c, withError, getWeights) == TRUE

\* the local ok of UnfoldWithErrors: the flag of the quantity asked for,
\* read after the dispatch
ok(c, withError, getWeights) ==
  IF getWeights /\ withError \in {kErrors, kCovariance} THEN c.cache.haveWgt
  ELSE IF withError \in {kErrors, kRooFit} THEN c.cache.haveErrors
  ELSE IF withError = kCovariance THEN c.cache.haveCov
  ELSE IF withError = kCovToy THEN c.cache.have_err_mat
  ELSE TRUE

\* the end of UnfoldWithErrors: if (!ok) _fail = true; return ok
UnfoldWithErrorsResult(c, withError, getWeights) ==
  IF ~ok(c, withError, getWeights)
    THEN [e |-> [c EXCEPT !.cache.fail = TRUE, !.cache.efail = TRUE], ret |-> "false"]
    ELSE [e |-> c, ret |-> "true"]

\* the kErrors and kRooFit case after GetErrors(), which may have thrown
UnfoldWithErrorsAfterGetErrors(g, withError, getWeights) ==
  IF g.thrown
    THEN [e |-> g.e, ret |-> "throw"]
    ELSE UnfoldWithErrorsResult(g.e, withError, getWeights)

RECURSIVE GetErrMat(_, _)
\* the dispatch of UnfoldWithErrors on an unfolded engine whose _withError
\* is set; toys are the toys GetErrMat() will draw
UnfoldWithErrorsDispatch(s, withError, getWeights, o, toys) ==
  IF getWeights /\ withError \in {kErrors, kCovariance}
    THEN UnfoldWithErrorsResult(IF ~s.cache.haveWgt THEN GetWgt(s, o) ELSE s,
                                withError, getWeights)
  ELSE IF withError \in {kErrors, kRooFit}
    THEN IF ~s.cache.haveErrors
           THEN UnfoldWithErrorsAfterGetErrors(GetErrors(s, o), withError, getWeights)
           ELSE UnfoldWithErrorsResult(s, withError, getWeights)
  ELSE IF withError = kCovariance
    THEN UnfoldWithErrorsResult(IF ~s.cache.haveCov THEN GetCov(s, o) ELSE s,
                                withError, getWeights)
  ELSE IF withError = kCovToy
    THEN UnfoldWithErrorsResult(IF ~s.cache.have_err_mat THEN GetErrMat(s, toys) ELSE s,
                                withError, getWeights)
  ELSE UnfoldWithErrorsResult(s, withError, getWeights)

\* UnfoldWithErrors after its call of Unfold(): the fail flag when the result
\* is not there, else the treatment is recorded and the errors computed
UnfoldWithErrorsUnfolded(u, withError, getWeights, o, toys) ==
  IF ~u.cache.unfolded
    THEN [e |-> [u EXCEPT !.cache.fail = TRUE], ret |-> "false"]
    ELSE UnfoldWithErrorsDispatch(
           [u EXCEPT !.cache.haveErrors = IF u.withError # withError THEN FALSE ELSE @,
                     !.withError = withError],
           withError, getWeights, o, toys)

\* UnfoldWithErrors(withError, getWeights): [e, ret], ret in "true",
\* "false", "throw"
UnfoldWithErrors(e, withError, getWeights, o, toys) ==
  IF ~e.cache.unfolded /\ e.cache.fail
    THEN [e |-> e, ret |-> "false"]
    ELSE UnfoldWithErrorsUnfolded(IF ~e.cache.unfolded THEN Unfold(e, o) ELSE e,
                                  withError, getWeights, o, toys)

\* sqrt on a number kept by its square: NaN for a negative argument
sqrt(a) == IF a = NaN \/ a[1] < 0 THEN NaN ELSE a

\* element (i,i) of _err_mat, times err_den
err_mat_d(c, i) ==
  IF i <= Len(c.err_num) /\ i <= Len(c.err_num[i]) THEN c.err_num[i][i] ELSE NaN

\* the fraction <<n, d>> of a number n kept times d; NaN stays NaN
Over(a, d) == IF a = NaN THEN NaN ELSE <<a[1], d>>

\* the entries EunfoldV computes in its switch, each kept by its square as
\* a fraction <<n, d>>: sqrt(fabs(.)) of _rec(i), _variances(i), _cov(i,i)
\* or _err_mat(i,i)
EunfoldVEntries(e, withError) ==
  [i \in 1..e.nt |->
     IF withError = kNoError THEN Over(sqrt(fabs(At(e.cache.rec, i))), 1)
     ELSE IF withError \in {kErrors, kRooFit}
       THEN Over(sqrt(fabs(AtD(e.cache.var_v, i))), 1)
     ELSE IF withError = kCovariance THEN Over(sqrt(fabs(AtD(e.cache.cov_d, i))), 1)
     ELSE Over(sqrt(fabs(err_mat_d(e.cache, i))), e.cache.err_den)]

\* TVectorD Eunfold_v(_nt): zeros
ZeroVector(nt) == [i \in 1..nt |-> <<0, 1>>]

\* the vector EunfoldV builds after UnfoldWithErrors: ret names the field
\* the errors were taken from ("zero" when it failed), out is the length,
\* val the entries
EunfoldVResult(u, nt, withError) ==
  IF u.ret = "throw" THEN [e |-> u.e, ret |-> "throw", out |-> <<>>, val |-> <<>>]
  ELSE IF u.ret = "false"
    THEN [e |-> u.e, ret |-> "zero", out |-> <<nt>>, val |-> ZeroVector(nt)]
  ELSE IF withError = kNoError
    THEN [e |-> u.e, ret |-> "rec", out |-> <<nt>>,
          val |-> EunfoldVEntries(u.e, withError)]
  ELSE IF withError \in {kErrors, kRooFit}
    THEN [e |-> u.e, ret |-> "variances", out |-> <<nt>>,
          val |-> EunfoldVEntries(u.e, withError)]
  ELSE IF withError = kCovariance
    THEN [e |-> u.e, ret |-> "cov", out |-> <<nt>>,
          val |-> EunfoldVEntries(u.e, withError)]
  ELSE IF withError = kCovToy
    THEN [e |-> u.e, ret |-> "err_mat", out |-> <<nt>>,
          val |-> EunfoldVEntries(u.e, withError)]
  ELSE [e |-> u.e, ret |-> "throw", out |-> <<>>, val |-> <<>>]

\* EunfoldV(withError): [e, ret, out]
EunfoldV(e, withError, o, toys) ==
  EunfoldVResult(UnfoldWithErrors(e, withError, FALSE, o, toys), e.nt, withError)

\* the matrix Eunfold builds after UnfoldWithErrors: out is its shape
EunfoldResult(u, nt, withError) ==
  IF u.ret = "throw" THEN [e |-> u.e, ret |-> "throw", out |-> <<>>]
  ELSE IF u.ret = "false" THEN [e |-> u.e, ret |-> "zero", out |-> <<nt, nt>>]
  ELSE IF withError = kNoError THEN [e |-> u.e, ret |-> "rec", out |-> <<nt, nt>>]
  ELSE IF withError \in {kErrors, kRooFit}
    THEN [e |-> u.e, ret |-> "variances", out |-> <<nt, nt>>]
  ELSE IF withError = kCovariance THEN [e |-> u.e, ret |-> "cov", out |-> u.e.cache.cov]
  ELSE IF withError = kCovToy THEN [e |-> u.e, ret |-> "err_mat", out |-> u.e.cache.err_mat]
  ELSE [e |-> u.e, ret |-> "throw", out |-> <<>>]

\* Eunfold(withError): [e, ret, out]
Eunfold(e, withError, o, toys) ==
  EunfoldResult(UnfoldWithErrors(e, withError, FALSE, o, toys), e.nt, withError)

\* the toy-covariance case of Wunfold: the status of InvertMatrix is not
\* read ("inverse" when the solver succeeded, "failed inverse" when not)
WunfoldInverse(e, r) ==
  [e |-> ErrorRoutineCalled(e),
   ret |-> IF r.status = 0 THEN "failed inverse" ELSE "inverse", out |-> r.inv]

\* the matrix Wunfold builds after UnfoldWithErrors: out is its shape
WunfoldResult(u, nt, withError, o) ==
  IF u.ret = "throw" THEN [e |-> u.e, ret |-> "throw", out |-> <<>>]
  ELSE IF u.ret = "false" THEN [e |-> u.e, ret |-> "zero", out |-> <<nt, nt>>]
  ELSE IF withError = kNoError THEN [e |-> u.e, ret |-> "rec", out |-> <<nt, nt>>]
  ELSE IF withError \in {kErrors, kRooFit}
    THEN [e |-> u.e, ret |-> "wgt diagonal", out |-> <<nt, nt>>]
  ELSE IF withError = kCovariance THEN [e |-> u.e, ret |-> "wgt", out |-> u.e.cache.wgt]
  ELSE IF withError = kCovToy
    THEN WunfoldInverse(u.e, InvertMatrix(u.e.cache.err_mat, "normal", o # "ifail"))
  ELSE [e |-> u.e, ret |-> "throw", out |-> <<>>]

\* Wunfold(withError): [e, ret, out]
Wunfold(e, withError, o, toys) ==
  WunfoldResult(UnfoldWithErrors(e, withError, TRUE, o, toys), e.nt, withError, o)

\* the toys of GetErrMat() inside a toy: a toy asks for the default
\* treatments of EunfoldV and Chi2, kErrors and kCovariance, never for
\* kCovToy, so GetErrMat() is not reached there
NoToys == <<>>

\* Hunfold once the result is there: Vunfold(), EunfoldV(), createHist on
\* the variables of the truth histogram; out is the number of bins
HunfoldFilled(x, nt) ==
  IF x.ret = "throw" THEN [e |-> x.e, ret |-> "throw", out |-> <<>>]
  ELSE [e |-> x.e, ret |-> "filled", out |-> <<nt>>]

\* Hunfold after its call of UnfoldWithErrors: an empty histogram on the
\* variables of the truth histogram when there is no result
HunfoldUnfolded(u, o) ==
  IF u.ret = "throw" THEN [e |-> u.e, ret |-> "throw", out |-> <<>>]
  ELSE IF ~u.e.cache.unfolded THEN [e |-> u.e, ret |-> "empty", out |-> <<u.e.nt>>]
  ELSE HunfoldFilled(EunfoldV(Vunfold(u.e, o), EunfoldVDefault, o, NoToys), u.e.nt)

\* Hunfold(withError): [e, ret, out]
Hunfold(e, withError, o, toys) ==
  HunfoldUnfolded(UnfoldWithErrors(e, withError, FALSE, o, toys), o)

\* subtract(_cache._rec, hTrue): the residual, one entry per bin of hTrue
subtract(rec, hTrue) == [i \in 1..Len(hTrue) |-> Minus(At(rec, i), <<hTrue[i]>>)]

\* the squares of the entries of EunfoldV(DoChi2) that the loop of Chi2
\* reads: fabs(_rec(i)) for kNoError, fabs(_variances(i)) for kErrors, kRooFit
eunfold(e, DoChi2) ==
  [i \in 1..e.nt |-> IF DoChi2 = kNoError THEN fabs(At(e.cache.rec, i))
                     ELSE fabs(AtD(e.cache.var_v, i))]

\* chi2 += ypull * ypull with ypull = r / e, on the fraction chi2 = <<n, d>>
\* and the square e2 of e
AddPull(chi2, r, e2) ==
  IF chi2 = NaN \/ r = NaN \/ e2 = NaN THEN NaN
  ELSE <<chi2[1] * e2[1] + r[1] * r[1] * chi2[2], chi2[2] * e2[1]>>

RECURSIVE Chi2LoopDivides(_, _, _, _, _)
\* a loop that divides by every error, zero or not
Chi2LoopDivides(res, e2, i, nt, chi2) ==
  IF i > nt THEN chi2
  ELSE Chi2LoopDivides(res, e2, i + 1, nt, AddPull(chi2, AtD(res, i), e2[i]))

RECURSIVE Chi2Loop(_, _, _, _, _)
\* the loop of Chi2 over the bins i.._nt: a bin with e <= 0 is skipped
Chi2Loop(res, e2, i, nt, chi2) ==
  IF i > nt THEN chi2
  ELSE IF e2[i] # NaN /\ e2[i][1] <= 0 THEN Chi2Loop(res, e2, i + 1, nt, chi2)
  ELSE Chi2Loop(res, e2, i + 1, nt, AddPull(chi2, AtD(res, i), e2[i]))

\* ABAT(resmat, wgt, chi2mat): the quadratic form of the residual with the
\* weights x = Wunfold(DoChi2).  The entries of the weights are not kept:
\* the form is 0 for a zero residual, res^2 / _err_mat(0,0) for the inverse
\* of a 1 x 1 toy matrix with a nonzero entry, and not determined otherwise
\* (NaN), as when the shapes do not match.
ABAT(res, x, nt) ==
  IF x.out # <<nt, nt>> \/ Len(res) # nt THEN NaN
  ELSE IF \A i \in 1..nt : res[i] = <<0>> THEN <<0, 1>>
  ELSE IF /\ nt = 1 /\ x.ret = "inverse" /\ res[1] # NaN
          /\ x.e.cache.err_num[1][1] # NaN /\ x.e.cache.err_num[1][1] # <<0>>
    THEN <<res[1][1] * res[1][1] * x.e.cache.err_den, x.e.cache.err_num[1][1][1]>>
  ELSE NaN

\* the value of Chi2 once the errors or the weights x have been fetched:
\* "-1" when the fail flag is set, else a computed value: "chi2", or
\* "chi2 of failed inverse" when the weights are what a failed inversion
\* left; val is the value as a fraction <<n, d>>, NaN when not determined
Chi2Value(x, res, DoChi2, nt) ==
  IF x.ret = "throw" THEN [e |-> x.e, ret |-> "throw", val |-> NaN]
  ELSE IF x.e.cache.fail THEN [e |-> x.e, ret |-> "-1", val |-> <<0 - 1, 1>>]
  ELSE IF x.ret = "failed inverse"
    THEN [e |-> x.e, ret |-> "chi2 of failed inverse", val |-> NaN]
  ELSE IF DoChi2 \in {kCovariance, kCovToy}
    THEN [e |-> x.e, ret |-> "chi2", val |-> ABAT(res, x, nt)]
  ELSE [e |-> x.e, ret |-> "chi2",
        val |-> Chi2Loop(res, eunfold(x.e, DoChi2), 1, nt, <<0, 1>>)]

\* Chi2 after its call of UnfoldWithErrors
Chi2Unfolded(u, hTrue, DoChi2, o, toys) ==
  IF u.ret = "throw" THEN [e |-> u.e, ret |-> "throw", val |-> NaN]
  ELSE IF u.ret = "false" THEN [e |-> u.e, ret |-> "-1", val |-> <<0 - 1, 1>>]
  ELSE IF DoChi2 \in {kCovariance, kCovToy}
    THEN Chi2Value(Wunfold(u.e, DoChi2, o, toys),
                   subtract(u.e.cache.rec, hTrue), DoChi2, u.e.nt)
    ELSE Chi2Value(EunfoldV(u.e, DoChi2, o, toys),
                   subtract(u.e.cache.rec, hTrue), DoChi2, u.e.nt)

\* Chi2(hTrue, DoChi2): [e, ret, val]; ret is "-1", "chi2",
\* "chi2 of failed inverse" or "throw"
Chi2(e, hTrue, DoChi2, o, toys) ==
  Chi2Unfolded(UnfoldWithErrors(e, DoChi2, FALSE, o, toys), hTrue, DoChi2, o, toys)

\* response()->Htruth(): the response of the model keeps its bin counts
\* only; its truth is a histogram of _nt empty bins
Htruth(e) == [i \in 1..e.nt |-> 0]


\* the measured vector of one toy: ForceRecalculation(); Vmeasured();
\* randomize() unless the systematics are kNoMeasured
ToyMeasured(m, toy) ==
  IF m.dosys # kNoMeasured
    THEN [m EXCEPT !.cache.vMes = <<randomize(@[1], toy.noise)>>]
    ELSE m

\* vxe.push_back(EunfoldV()); chi2.push_back(Chi2(Htruth()))
ToyErrors(a, rec, x, c) ==
  [e |-> c.e, vx |-> Append(a.vx, rec), vxe |-> Append(a.vxe, x.ret),
   chi2 |-> Append(a.chi2, c.ret)]

\* the error part of one toy, x being what EunfoldV() returned
ToyChi2(a, rec, x, toy) ==
  ToyErrors(a, rec, x, Chi2(x.e, Htruth(x.e), Chi2Default, toy.o, NoToys))

\* one toy after its Vunfold(): vx.push_back, then the errors
ToyUnfolded(a, v, toy, errorType) ==
  IF errorType # kNoError
    THEN ToyChi2(a, v.cache.rec, EunfoldV(v, EunfoldVDefault, toy.o, NoToys), toy)
    ELSE [e |-> v, vx |-> Append(a.vx, v.cache.rec), vxe |-> a.vxe, chi2 |-> a.chi2]

\* a repetition of RunToys that keeps the cache of the one before it
ToyBodyKeepsCache(a, toy, errorType) ==
  ToyUnfolded(a, Vunfold(ToyMeasured(Vmeasured(ToyRun(a.e)), toy), toy.o),
              toy, errorType)

\* One repetition of the loop of RunToys; a is [e, vx, vxe, chi2]
ToyBody(a, toy, errorType) ==
  ToyUnfolded(a, Vunfold(ToyMeasured(Vmeasured(ForceRecalculation(ToyRun(a.e))), toy),
                         toy.o),
              toy, errorType)

RECURSIVE ToyLoop(_, _, _, _)
\* the repetitions i..Len(toys) of the loop of RunToys
ToyLoop(a, toys, i, errorType) ==
  IF i > Len(toys) THEN a
  ELSE ToyLoop(ToyBody(a, toys[i], errorType), toys, i + 1, errorType)

\* a RunToys that returns as its last toy left the engine
RunToysLeavesToy(a, errorType) == a

\* the end of RunToys: ForceRecalculation(); _withError = errorType
RunToysEnd(a, errorType) ==
  [a EXCEPT !.e = [ForceRecalculation(a.e) EXCEPT !.withError = errorType]]

\* RunToys(ntoys, vx, vxe, chi2) with ntoys = Len(toys): [e, vx, vxe, chi2]
RunToys(e, toys) ==
  RunToysEnd(ToyLoop([e |-> [e EXCEPT !.withError = kDefault],
                      vx |-> <<>>, vxe |-> <<>>, chi2 |-> <<>>],
                     toys, 1, e.withError),
             e.withError)

RECURSIVE ToyRepetitions(_, _, _, _, _, _)
\* the repetition i of RunToys has ended as a2: it is recorded by the number
\* of times it ran Unfold(), the vectors it appended to vx, the last of
\* them, and the vector the same toy gives as the first repetition (on a0)
ToyRepetition(a2, a0, toys, i, errorType, reps) ==
  ToyRepetitions(a2, a0, toys, i + 1, errorType,
                 Append(reps, [runs |-> a2.e.acalls,
                               pushed |-> Len(a2.vx) - (i - 1),
                               rec |-> IF Len(a2.vx) > 0 THEN a2.vx[Len(a2.vx)] ELSE <<>>,
                               alone |-> ToyBody(a0, toys[i], errorType).vx[1]]))

\* the repetitions i..Len(toys) of the loop of RunToys, one record each
ToyRepetitions(a, a0, toys, i, errorType, reps) ==
  IF i > Len(toys) THEN reps
  ELSE ToyRepetition(ToyBody([a EXCEPT !.e.acalls = 0], toys[i], errorType),
                     a0, toys, i, errorType, reps)

\* the records of the repetitions of RunToys(ntoys, ...) with ntoys = Len(toys)
RunToysRepetitions(e, toys) ==
  ToyRepetitions([e |-> [e EXCEPT !.withError = kDefault],
                  vx |-> <<>>, vxe |-> <<>>, chi2 |-> <<>>],
                 [e |-> [e EXCEPT !.withError = kDefault],
                  vx |-> <<>>, vxe |-> <<>>, chi2 |-> <<>>],
                 toys, 1, e.withError, <<>>)

\* what one inner repetition of the Asimov toys draws: the outcome of the
\* strategy, should it run, and the noise of randomize()
AsimovToyOracle == [o : {"ufail", "ok"}, noise : {1, 2}]

\* the draws of ntoys = k outer repetitions of k inner repetitions each
AsimovToySeqs(k) == [1..k -> [1..k -> AsimovToyOracle]]

\* res->Vfolded(vtruth), mres*toytruth: the fold of a truth vector; the
\* response of the model keeps its bin counts only and folds bin to bin
Vfolded(e, vtruth) == [i \in 1..e.nm |-> IF i <= Len(vtruth) THEN vtruth[i] ELSE 0]

\* vtruth - Vunfold(): TVectorD subtraction, defined for equal lengths
Deviation(vtruth, rec) ==
  IF Len(rec) = Len(vtruth)
    THEN [b \in 1..Len(rec) |-> vtruth[b] - rec[b]]
    ELSE <<"incompatible">>

\* the number of times Vunfold() on m runs the strategy
UnfoldRuns(m, o) == Vunfold([m EXCEPT !.acalls = 0], o).acalls

\* vbias.push_back(vtruth - Vunfold()) on the engine m of one inner
\* repetition; a is [e, vtruth, vbias, vmes, recs, os, runs]
AsimovUnfolded(a, m, toy) ==
  [e |-> Vunfold(m, toy.o),
   vtruth |-> a.vtruth,
   vbias |-> Append(a.vbias, Deviation(a.vtruth, Vunfold(m, toy.o).cache.rec)),
   vmes |-> Append(a.vmes, m.cache.vMes[1]),
   recs |-> Append(a.recs, Vunfold(m, toy.o).cache.rec),
   os |-> Append(a.os, toy.o),
   runs |-> a.runs + UnfoldRuns(m, toy.o)]

\* one inner repetition: _vMes = new TVectorD(Vfolded(Vtruth())); randomize;
\* vbias.push_back(vtruth - Vunfold())
AsimovInner(a, toy) ==
  AsimovUnfolded(a, [a.e EXCEPT !.cache.vMes = <<randomize(Vfolded(a.e, a.vtruth), toy.noise)>>],
                 toy)

RECURSIVE AsimovInnerLoop(_, _, _)
\* the inner repetitions j..Len(row)
AsimovInnerLoop(a, row, j) ==
  IF j > Len(row) THEN a
  ELSE AsimovInnerLoop(AsimovInner(a, row[j]), row, j + 1)

\* one outer repetition: ForceRecalculation(); Vmeasured(); randomize()
\* unless kNoMeasured; then the inner loop
AsimovOuter(a, row) ==
  AsimovInnerLoop([a EXCEPT !.e = ToyMeasured(Vmeasured(ForceRecalculation(ToyRun(a.e))),
                                              row[1])],
                  row, 1)

RECURSIVE AsimovOuterLoop(_, _, _)
\* the outer repetitions i..Len(toys)
AsimovOuterLoop(a, toys, i) ==
  IF i > Len(toys) THEN a
  ELSE AsimovOuterLoop(AsimovOuter(a, toys[i]), toys, i + 1)

\* RunBiasAsimovToys(ntoys, vbias) with ntoys = Len(toys) on a response
\* whose Vtruth() is vtruth; the cache is reset at the end
RunBiasAsimovToysOn(e, toys, vtruth) ==
  [AsimovOuterLoop([e |-> e, vtruth |-> vtruth, vbias |-> <<>>, vmes |-> <<>>,
                    recs |-> <<>>, os |-> <<>>, runs |-> 0],
                   toys, 1)
     EXCEPT !.e = ForceRecalculation(@)]

\* RunBiasAsimovToys(ntoys, vbias) on the response of the model
RunBiasAsimovToys(e, toys) == RunBiasAsimovToysOn(e, toys, Htruth(e))

\* the draws of an Asimov run in which the strategy succeeds
AsimovOkSeqs(k) == [1..k -> [1..k -> [o : {"ok"}, noise : {1, 2}]]]

\* res->Vtruth(): truth vectors of n equal bins
AsimovTruths(n) == {[i \in 1..n |-> v] : v \in 0..MaxCount}

\* the bias vector of one inner repetition for RooFitHist: relative to
\* vtruth where that is positive, else 0; entries are fractions <<n, d>>
DeviationRooFit(vtruth, rec) ==
  [b \in 1..Len(rec) |-> IF b <= Len(vtruth) /\ vtruth[b] > 0
                           THEN <<vtruth[b] - rec[b], vtruth[b]>>
                           ELSE <<0, 1>>]

\* vbias.push_back(bias) on the engine m of one inner repetition for
\* RooFitHist; a is [e, vtruth, outer, vbias, recs], vt the outer truth toy
AsimovFitUnfolded(a, m, vt, toy) ==
  [e |-> Vunfold(m, toy.o),
   vtruth |-> a.vtruth,
   outer |-> Append(a.outer, vt),
   vbias |-> Append(a.vbias, DeviationRooFit(vt, Vunfold(m, toy.o).cache.rec)),
   recs |-> Append(a.recs, Vunfold(m, toy.o).cache.rec)]

\* one inner repetition for RooFitHist: toytruth = randomize(vtruth);
\* _vMes = new TVectorD(mres*toytruth); Vunfold(); no reset of the cache
AsimovFitInner(a, vt, toy) ==
  AsimovFitUnfolded(a, [a.e EXCEPT !.cache.vMes =
                                     <<Vfolded(a.e, randomize(vt, toy.noise))>>],
                    vt, toy)

RECURSIVE AsimovFitInnerLoop(_, _, _, _)
\* the inner repetitions j..Len(row) for RooFitHist
AsimovFitInnerLoop(a, vt, row, j) ==
  IF j > Len(row) THEN a
  ELSE AsimovFitInnerLoop(AsimovFitInner(a, vt, row[j]), vt, row, j + 1)

RECURSIVE AsimovFitOuterLoop(_, _, _)
\* the outer repetitions i..Len(toys) for RooFitHist: vtruth = Vtruth();
\* randomize(vtruth); then the inner loop
AsimovFitOuterLoop(a, toys, i) ==
  IF i > Len(toys) THEN a
  ELSE AsimovFitOuterLoop(
         AsimovFitInnerLoop(a, randomize(a.vtruth, toys[i][1].noise), toys[i], 1),
         toys, i + 1)

\* RunBiasAsimovToys(ntoys, vbias) for RooFitHist on a response whose
\* Vtruth() is vtruth
RunBiasAsimovToysRooFit(e, toys, vtruth) ==
  AsimovFitOuterLoop([e |-> e, vtruth |-> vtruth, outer |-> <<>>, vbias |-> <<>>,
                      recs |-> <<>>],
                     toys, 1)

\* one repetition of the loop of RunToys for RooFitHist: the drawn
\* parameters move the measured histogram (unless kNoMeasured), then
\* ForceRecalculation(); Vunfold(); the errors
ToyBodyRooFit(a, toy, errorType, nominal) ==
  ToyUnfolded(a,
              Vunfold(ForceRecalculation(ToyRun(
                        [a.e EXCEPT !.meas = <<IF a.e.dosys # kNoMeasured
                                                 THEN randomize(nominal, toy.noise)
                                                 ELSE nominal>>])),
                      toy.o),
              toy, errorType)

RECURSIVE ToyLoopRooFit(_, _, _, _, _)
\* the repetitions i..Len(toys) of the loop of RunToys for RooFitHist
ToyLoopRooFit(a, toys, i, errorType, nominal) ==
  IF i > Len(toys) THEN a
  ELSE ToyLoopRooFit(ToyBodyRooFit(a, toys[i], errorType, nominal), toys, i + 1,
                     errorType, nominal)

\* the end of RunToys for RooFitHist: _withError = errorType; the parameters
\* are set back to their snapshot; ForceRecalculation()
RunToysRooFitEnd(a, errorType, nominal) ==
  [a EXCEPT !.e = ForceRecalculation([a.e EXCEPT !.withError = errorType,
                                                 !.meas = <<nominal>>])]

\* RunToys(ntoys, vx, vxe, chi2) of RooUnfoldT<RooFitHist,RooFitHist>
RunToysRooFit(e, toys) ==
  RunToysRooFitEnd(ToyLoopRooFit([e |-> [e EXCEPT !.withError = kDefault],
                                  vx |-> <<>>, vxe |-> <<>>, chi2 |-> <<>>],
                                 toys, 1, e.withError, e.meas[1]),
                   e.withError, e.meas[1])

\* what the reads vx[0], vxe[0], chi2[0] of RunToy give: the entries RunToys
\* produced, or, for a list left empty, a read outside the list, which the
\* build may answer with any value ("garbage") or by crashing ("crash")
RunToyReads(r, ub) ==
  [e |-> r.e, vx |-> r.vx, vxe |-> r.vxe, chi2 |-> r.chi2,
   ret |-> IF Len(r.vx) >= 1 /\ Len(r.vxe) >= 1 /\ Len(r.chi2) >= 1
             THEN r.chi2[1] ELSE ub]

\* RunToy(x, xe): RunToys(1, vx, vxe, chi2), then x = vx[0], xe = vxe[0],
\* return chi2[0]
RunToy(e, toy, ub) == RunToyReads(RunToys(e, <<toy>>), ub)

\* one repetition of the loop of GetErrMat after its RunToy: x is vx[0],
\* xisum[i] += x[i], xijsum(i,j) += x[i] * x[j]; toyx records x
GetErrMatSums(a, r, nt) ==
  [e |-> [r.e EXCEPT !.toyx = Append(@, r.vx[1])],
   xisum |-> [i \in 1..nt |-> Plus(a.xisum[i], At(r.vx[1], i))],
   xijsum |-> [i \in 1..nt |-> [j \in 1..nt |->
                 Plus(a.xijsum[i][j], Times(At(r.vx[1], i), At(r.vx[1], j)))]]]

RECURSIVE GetErrMatLoop(_, _, _)
\* the loop of GetErrMat: one RunToy (RunToys of a single toy) per k
GetErrMatLoop(a, toys, k) ==
  IF k > a.e.NToys THEN a
  ELSE GetErrMatLoop(GetErrMatSums(a, RunToys(a.e, <<toys[k]>>), a.e.nt), toys, k + 1)

\* the end of GetErrMat: the entries (i,j), i,j < _nt, are written into
\* _err_mat as the loop left it; a write outside its range stores nothing
GetErrMatStore(a, N, nt) ==
  [a.e EXCEPT
     !.cache.err_num =
        [i \in 1..Len(@) |-> [j \in 1..Len(@[i]) |->
           IF i <= nt /\ j <= nt
             THEN Minus(Times(<<N>>, a.xijsum[i][j]), Times(a.xisum[i], a.xisum[j]))
             ELSE @[i][j]]],
     !.cache.err_den = N * (N - 1),
     !.cache.have_err_mat = TRUE]

\* GetErrMat()
GetErrMat(e, toys) ==
  IF e.NToys <= 1
    THEN ErrorRoutineCalled(e)
    ELSE GetErrMatStore(
           GetErrMatLoop([e |-> [ErrorRoutineCalled(e) EXCEPT
                                   !.cache.err_mat = <<e.nt, e.nt>>,
                                   !.cache.err_num = ResizeMat(@, e.nt, e.nt)],
                          xisum |-> [i \in 1..e.nt |-> <<0>>],
                          xijsum |-> [i \in 1..e.nt |-> [j \in 1..e.nt |-> <<0>>]]],
                         toys, 1),
           e.NToys, e.nt)

\* a CalculateBias that runs its toys on this engine: the cache is rebuilt
\* by the ForceRecalculation() that ends RunToys
CalculateBiasOnSelf(e, method) ==
  [ForceRecalculation(e) EXCEPT !.cache.bias = e.nt, !.cache.sigbias = e.nt,
                                !.cache.haveBias = TRUE]

\* CalculateBias(method, ntoys, hTrue): the toys run on the auxiliary engine
\* built by New(); this engine gets the bias vectors and the flag
CalculateBias(e, method) ==
  IF method \in {kBiasEstimator, kBiasClosure, kBiasAsimov}
    THEN [e EXCEPT !.cache.bias = e.nt, !.cache.sigbias = e.nt,
                   !.cache.haveBias = TRUE]
    ELSE [e EXCEPT !.cache.haveBias = TRUE]

\* a Vbias that hands out _bias without looking at the flag
VbiasUnchecked(e) == [ret |-> "vector", out |-> <<e.cache.bias>>]

\* Vbias(): throws unless _haveBias, else a reference to _cache._bias
Vbias(e) ==
  IF ~e.cache.haveBias
    THEN [ret |-> "throw", out |-> <<>>]
    ELSE [ret |-> "vector", out |-> <<e.cache.bias>>]

\* Ebias(): throws unless _haveBias, else a reference to _cache._sigbias
Ebias(e) ==
  IF ~e.cache.haveBias
    THEN [ret |-> "throw", out |-> <<>>]
    ELSE [ret |-> "vector", out |-> <<e.cache.sigbias>>]

\* ------------------------------------------------------------ state machine
\* some cached quantity was valid, or the fail flag set
Dirty(e) ==
  \/ e.cache.unfolded \/ e.cache.fail \/ e.cache.haveCov \/ e.cache.haveWgt
  \/ e.cache.haveErrors \/ e.cache.have_err_mat \/ e.cache.haveBias

\* The record of the last operation.  An operation under observation (its
\* name is in watch) is recorded with its treatment and weight arguments,
\* what it returned and whether the engine was dirty before it; any other
\* operation is recorded by its class: "query" for Vunfold, UnfoldWithErrors,
\* Chi2, EunfoldV, Eunfold and Wunfold, "other" for the rest.
Done(op, class, t, w, ret, out) ==
  IF op \in watch
    THEN [op |-> op, t |-> t, w |-> w, ret |-> ret, out |-> out, was |-> Dirty(eng)]
    ELSE [op |-> class, t |-> "", w |-> FALSE, ret |-> "", out |-> <<>>, was |-> FALSE]

\* the engine at the start of an operation: no call counted yet
Start == [eng EXCEPT !.acalls = 0, !.ecalls = 0, !.tcalls = 0, !.toyx = <<>>]

\* the engine is bound to a response and a measured histogram
Bound == eng.res # <<>> /\ eng.meas # <<>>

\* An operation with treatment t runs the toy loop of GetErrMat(): for
\* kCovToy with more than one toy configured, no toy error matrix cached,
\* and a result that is there or that Unfold() will produce.
RunsToys(t, o) ==
  /\ t = kCovToy /\ eng.NToys > 1 /\ ~eng.cache.have_err_mat
  /\ (eng.cache.unfolded \/ (~eng.cache.fail /\ o # "ufail"))

\* the toys the operation draws
ToysOf(t, o) ==
  IF RunsToys(t, o) /\ eng.NToys <= MaxToys THEN ToySeqs(eng.NToys) ELSE {<<>>}

\* the toy loops the model runs have at most MaxToys repetitions
Capped(t, o) == RunsToys(t, o) => eng.NToys <= MaxToys

\* the members before Setup: the constructor leaves _withError unassigned,
\* any treatment t
NewEngine(t) ==
  [res |-> <<>>, meas |-> <<>>, nm |-> 0, nt |-> 0,
   dosys |-> kNoSystematics, covMes |-> <<>>, NToys |-> DefaultNToys,
   withError |-> t, cache |-> Cache, peak |-> 0, acalls |-> 0,
   ecalls |-> 0, tcalls |-> 0, toyx |-> <<>>]

\* RooUnfoldT(res, meas): Init(); Setup(res, meas).
Constructed(r, h, t) ==
    /\ eng = Setup(NewEngine(t), r, SubSeq(h, 1, r.nm))
    /\ last = [op |-> "new", t |-> "", w |-> FALSE, ret |-> "void",
               out |-> <<>>, was |-> FALSE]

\* the reference histograms a caller can pass to CalculateBias: none, or
\* the one of n bins of content 1
HTrues(n) == {<<>>, <<[i \in 1..n |-> 1]>>}

\* truth(hTrue ? h2v(hTrue) : _res->Vtruth()), hTrue being Htruth() of the
\* response when the caller passed none
ReferenceTruth(hTrue, vtruth) == IF hTrue # <<>> THEN h2v(hTrue[1]) ELSE vtruth

\* asimovClone(response()->Hmeasured()): the measured histogram of the
\* response, which is the fold of its truth
AsimovClone(e, vtruth) == Vfolded(e, vtruth)

\* New(GetAlgorithm(), response(), asimov, GetRegParm()): the auxiliary
\* engine, constructed on a copy of the response and on asimov
ToyFactory(e, vtruth, t) == Setup(NewEngine(t), e.res[1], AsimovClone(e, vtruth))

RECURSIVE BiasSum(_, _, _)
\* sum += bias[j][i] over the toys j..n
BiasSum(bias, i, j) ==
  IF j > Len(bias) THEN 0 ELSE bias[j][i] + BiasSum(bias, i, j + 1)

RECURSIVE BiasSum2(_, _, _)
\* sum2 += bias[j][i]*bias[j][i] over the toys j..n
BiasSum2(bias, i, j) ==
  IF j > Len(bias) THEN 0 ELSE bias[j][i] * bias[j][i] + BiasSum2(bias, i, j + 1)

\* the absolute value of an integer
Abs(x) == IF x < 0 THEN 0 - x ELSE x

\* _cache._bias(i) = sum/n as the fraction <<sum, n>>
AsimovMean(bias, nt) == [i \in 1..nt |-> <<BiasSum(bias, i, 1), Len(bias)>>]

\* _cache._sigbias(i) = sqrt(var/n), var = fabs(sum2 - sum*mean)/(n-1), kept
\* by its square as the fraction <<|n*sum2 - sum*sum|, n*n*(n-1)>>
AsimovSigma2(bias, nt) ==
  [i \in 1..nt |->
     <<Abs(Len(bias) * BiasSum2(bias, i, 1) - BiasSum(bias, i, 1) * BiasSum(bias, i, 1)),
       Len(bias) * Len(bias) * (Len(bias) - 1)>>]

\* a kBiasAsimov branch whose mean is taken against the reference truth
AsimovStoreAgainstTruth(e, vbias, truth) ==
  [e |-> CalculateBias(e, kBiasAsimov),
   bias |-> [i \in 1..e.nt |-> <<BiasSum(vbias, i, 1) - Len(vbias) * truth[i],
                                  Len(vbias)>>],
   sigbias |-> AsimovSigma2(vbias, e.nt), ret |-> "void"]

\* the end of the kBiasAsimov branch: the vectors from the deviations, the
\* flag; truth, the reference, is in scope and not read; [e, bias, sigbias, ret]
AsimovStore(e, vbias, truth) ==
  [e |-> CalculateBias(e, kBiasAsimov), bias |-> AsimovMean(vbias, e.nt),
   sigbias |-> AsimovSigma2(vbias, e.nt), ret |-> "void"]

\* CalculateBias(kBiasAsimov, ntoys, hTrue) with ntoys = Len(toys) on a
\* response whose truth is vtruth
CalculateBiasAsimov(e, hTrue, vtruth, toys, t) ==
  AsimovStore(e, RunBiasAsimovToysOn(ToyFactory(e, vtruth, t), toys, vtruth).vbias,
              ReferenceTruth(hTrue, vtruth))

\* the kBiasEstimator loop: _cache._bias[i] as a fraction, relative to
\* truth[i] unless that is zero; unfold[i] past the end of unfold is NaN
EstimatorBias(unfold, truth, nt) ==
  [i \in 1..nt |-> IF i > Len(unfold) THEN NaN
                   ELSE IF truth[i] # 0 THEN <<unfold[i] - truth[i], truth[i]>>
                   ELSE <<unfold[i] - truth[i], 1>>]

\* the kBiasEstimator branch after toyFactory->Vunfold() left the auxiliary
\* engine as u and toyFactory->EunfoldV() returned x;
\* [e, aux, truth, bias, unfold, ret], aux being the measured histogram of
\* the auxiliary engine
EstimatorStore(e, u, x, truth) ==
  IF x.ret = "throw"
    THEN [e |-> e, aux |-> u.meas[1], truth |-> truth, bias |-> <<>>,
          unfold |-> u.cache.rec, ret |-> "throw"]
    ELSE [e |-> CalculateBias(e, kBiasEstimator), aux |-> u.meas[1], truth |-> truth,
          bias |-> EstimatorBias(u.cache.rec, truth, e.nt),
          unfold |-> u.cache.rec, ret |-> "void"]

\* the kBiasEstimator branch on the auxiliary engine u after its Vunfold()
EstimatorUnfolded(e, u, o, truth) ==
  EstimatorStore(e, u, EunfoldV(u, EunfoldVDefault, o, NoToys), truth)

\* CalculateBias(kBiasEstimator, ntoys, hTrue) on a response whose truth is
\* vtruth
CalculateBiasEstimator(e, hTrue, vtruth, t, o) ==
  EstimatorUnfolded(e, Vunfold(ToyFactory(e, vtruth, t), o), o,
                    ReferenceTruth(hTrue, vtruth))

\* what toyFactory->RunToys hands back for k toys of n bins: the unfolded
\* value and the error of every toy, equal in all bins
ToyResults(k, n) ==
  [1..k -> {[x |-> [j \in 1..n |-> v], xe |-> [j \in 1..n |-> w]] :
              v \in {0, 2}, w \in {0, 1}}]

\* pull_results(i, j): recorded when toy_error[i](j) != 0, as the fraction
\* (toy_unfold[i](j) - truth(j)) / toy_unfold[i](j); else the entry stays 0
ClosurePulls(toys, truth) ==
  [i \in 1..Len(toys) |->
     [j \in 1..Len(toys[i].x) |->
        IF toys[i].xe[j] # 0
          THEN [rec |-> TRUE, val |-> <<toys[i].x[j] - truth[j], toys[i].x[j]>>]
          ELSE [rec |-> FALSE, val |-> <<0, 1>>]]]

\* CalculateBias(kBiasClosure, ntoys, hTrue) with ntoys = Len(toys), toys
\* being what RunToys of the auxiliary engine handed back.  An auxiliary
\* engine whose _withError is kNoError hands back no errors: toy_error[i]
\* is then read past the end, which crashes or gives the errors drawn.
CalculateBiasClosure(e, hTrue, vtruth, t, toys, ub) ==
  IF t = kNoError /\ ub = "crash" /\ Len(toys) > 0
    THEN [e |-> e, aux |-> ToyFactory(e, vtruth, t).meas[1],
          truth |-> ReferenceTruth(hTrue, vtruth), bias |-> <<>>,
          unfold |-> <<>>, ret |-> "crash"]
    ELSE [e |-> CalculateBias(e, kBiasClosure), aux |-> ToyFactory(e, vtruth, t).meas[1],
          truth |-> ReferenceTruth(hTrue, vtruth),
          bias |-> ClosurePulls(toys, ReferenceTruth(hTrue, vtruth)),
          unfold |-> [i \in 1..Len(toys) |-> toys[i].x], ret |-> "void"]

\* a CopyData that stops after Setup: the settings stay as Init() left them
CopyDataResets(e, rhs) == Setup(e, rhs.res[1], rhs.meas[1])

\* CopyData(rhs): Setup on copies of rhs's response and measured histogram,
\* then SetVerbose and SetNToys; the cache of rhs is not read
CopyData(e, rhs) == [Setup(e, rhs.res[1], rhs.meas[1]) EXCEPT !.NToys = rhs.NToys]

\* RooUnfoldT(rhs): Init(); CopyData(rhs).  _withError is not assigned.
CopyConstructed(rhs, t) == CopyData(NewEngine(t), rhs)

\* Assign(rhs) on another engine: Reset(); CopyData(rhs)
Assign(e, rhs) == CopyData(Reset(e), rhs)

\* an engine constructed on any response and measured histogram
Construct ==
  \E r \in Responses, h \in Hists(MaxBins), t \in ErrorTreatment : Constructed(r, h, t)

\* the queries of one engine, observed at Vunfold and UnfoldWithErrors
Init ==
  /\ Construct
  /\ watch = {"Vunfold", "UnfoldWithErrors"}

\* the toys of one engine, observed at RunToys, RunToy and Vunfold
InitToys ==
  /\ Construct
  /\ watch = {"RunToys", "RunToy", "Vunfold"}

\* the repetitions of RunToys of one engine, observed at RunToys
InitRepetitions ==
  /\ Construct
  /\ watch = {"RunToys"}

\* the measured errors of one engine, observed at Emeasured
InitMeasured ==
  /\ Construct
  /\ watch = {"Emeasured"}

\* the settings of one engine, observed at Setup, Copy and Assign
InitSettings ==
  /\ Construct
  /\ watch = {"Setup", "Copy", "Assign"}

\* the chi-squared of one engine, observed at Chi2; the measured histogram
\* may have an empty bin
InitChi2 ==
  /\ \E r \in Responses, h \in EmptyBinHists(MaxBins), t \in ErrorTreatment :
       Constructed(r, h, t)
  /\ watch = {"Chi2"}

\* the error accessors of one engine, observed at EunfoldV, Eunfold and
\* Wunfold
InitAccessors ==
  /\ Construct
  /\ watch = {"EunfoldV", "Eunfold", "Wunfold"}

\* the result of one engine, observed at Vunfold and Hunfold
InitResult ==
  /\ Construct
  /\ watch = {"Vunfold", "Hunfold"}

\* the bias of one engine, observed at CalculateBias, Vbias, Ebias and the
\* operations that reset the cache
InitBias ==
  /\ Construct
  /\ watch = {"CalculateBias", "Vbias", "Ebias", "ClearCache",
              "ForceRecalculation", "RunToys", "Setup"}

\* the copies of one engine, observed at the copy constructor and Assign
InitCopy ==
  /\ Construct
  /\ watch = {"Copy", "Assign"}

\* the inversion routine, observed at InvertMatrix
InitInvert ==
  /\ Construct
  /\ watch = {"InvertMatrix"}

\* the deviations of the Asimov toys of one engine, observed at
\* RunBiasAsimovToys of both kinds of histogram
InitAsimovTruth ==
  /\ Construct
  /\ watch = {"RunBiasAsimovToysTH1", "RunBiasAsimovToysRooFit"}

\* the bias vectors of one engine, observed at CalculateBias
InitBiasValues ==
  /\ Construct
  /\ watch = {"CalculateBias"}

\* the Asimov toys of one engine, observed at RunBiasAsimovToys
InitAsimov ==
  /\ Construct
  /\ watch = {"RunBiasAsimovToys"}

RECURSIVE FoldRow(_, _, _)
\* the sum over the truth bins j..n of R[j] * t[j]
FoldRow(R, t, j) == IF j > Len(t) THEN 0 ELSE R[j] * t[j] + FoldRow(R, t, j + 1)

\* the exact fold of the truth t through the response matrix R
Fold(R, t) == [i \in 1..Len(R) |-> FoldRow(R[i], t, 1)]

\* an engine constructed on a response of n x n bins and on the exact fold
\* of a truth t through its matrix R; R and t are kept in the history
InitFold ==
  /\ \E n \in 1..MaxBins, tr \in ErrorTreatment :
       \E R \in Matrices(n), t \in Truths(n) :
         /\ eng = Setup(NewEngine(tr), [nm |-> n, nt |-> n], Fold(R, t))
         /\ last = [op |-> "new", t |-> "", w |-> FALSE, ret |-> "void",
                    out |-> <<R, t>>, was |-> FALSE]
  /\ watch = {"Unfold"}

\* the rebinding of one engine, observed at Setup and the setters
InitSetters ==
  /\ Construct
  /\ watch = {"Setup", "SetResponse", "SetMeasured", "SetMeasuredVecErr",
              "SetMeasuredVecCov", "SetMeasuredCov"}

\* Setup(res, meas) with a response
DoSetup ==
  \E r \in Responses : \E h \in Hists(r.nm) :
    /\ eng' = Setup(Start, r, h)
    /\ last' = Done("Setup", "other", "", FALSE, "void", <<>>)
    /\ UNCHANGED watch

\* Setup(0, meas): Reset() has run when SetResponse throws
DoSetupNull ==
  \E h \in Hists(MaxBins) :
    /\ eng' = SetupOf(Start, <<>>, h).e
    /\ last' = Done("Setup", "other", "null", FALSE, SetupOf(Start, <<>>, h).ret, <<>>)
    /\ UNCHANGED watch

\* SetResponse(0)
DoSetResponseNull ==
  /\ eng' = SetResponseOf(Start, <<>>).e
  /\ last' = Done("SetResponse", "other", "null", FALSE, SetResponseOf(Start, <<>>).ret, <<>>)
  /\ UNCHANGED watch

\* SetResponse(res) with a response that fits the measured histogram
DoSetResponse ==
  \E r \in Responses :
    /\ eng.meas # <<>> /\ r.nm = Len(eng.meas[1])
    /\ eng' = SetResponse(Start, r)
    /\ last' = Done("SetResponse", "other", "", FALSE, "void", <<>>)
    /\ UNCHANGED watch

\* SetMeasured(const Hist*)
DoSetMeasured ==
  \E h \in Hists(eng.nm) :
    /\ eng' = SetMeasured(Start, h)
    /\ last' = Done("SetMeasured", "other", "", FALSE, "void", <<>>)
    /\ UNCHANGED watch

\* SetMeasured(const TVectorD&, const TVectorD&)
DoSetMeasuredVecErr ==
  \E h \in Hists(eng.nm) :
    /\ Bound
    /\ eng' = SetMeasuredVecErr(Start, h)
    /\ last' = Done("SetMeasuredVecErr", "other", "", FALSE, "void", <<>>)
    /\ UNCHANGED watch

\* SetMeasured(const TVectorD&, const TMatrixD&)
DoSetMeasuredVecCov ==
  \E h \in Hists(eng.nm) :
    /\ Bound
    /\ eng' = SetMeasuredVecCov(Start, h, <<eng.nm, eng.nm>>)
    /\ last' = Done("SetMeasuredVecCov", "other", "", FALSE, "void", <<>>)
    /\ UNCHANGED watch

\* SetMeasuredCov(cov)
DoSetMeasuredCov ==
  /\ eng' = SetMeasuredCov(Start, <<eng.nm, eng.nm>>)
  /\ last' = Done("SetMeasuredCov", "other", "", FALSE, "void", <<>>)
  /\ UNCHANGED watch

\* Emeasured(): the history keeps whether a measured covariance was set and
\* the vector returned
DoEmeasured ==
  /\ Bound
  /\ eng' = Emeasured(Start)
  /\ last' = Done("Emeasured", "query", "", eng.covMes # <<>>, "vector",
                  eng'.cache.eMes[1])
  /\ UNCHANGED watch

\* ClearCache()
DoClearCache ==
  /\ eng' = ClearCache(Start)
  /\ last' = Done("ClearCache", "other", "", FALSE, "void", <<>>)
  /\ UNCHANGED watch

\* ForceRecalculation()
DoForceRecalculation ==
  /\ Bound
  /\ eng' = ForceRecalculation(Start)
  /\ last' = Done("ForceRecalculation", "other", "", FALSE, "void", <<>>)
  /\ UNCHANGED watch

\* SetNToys(toys)
DoSetNToys ==
  \E n \in 0..MaxToys :
    /\ eng' = [Start EXCEPT !.NToys = n]
    /\ last' = Done("SetNToys", "other", "", FALSE, "void", <<>>)
    /\ UNCHANGED watch

\* IncludeSystematics(dosys): the cache is cleared when the setting changes
DoIncludeSystematics ==
  \E d \in SystematicsTreatment :
    /\ eng' = IF d # eng.dosys THEN [ClearCache(Start) EXCEPT !.dosys = d] ELSE Start
    /\ last' = Done("IncludeSystematics", "other", "", FALSE, "void", <<>>)
    /\ UNCHANGED watch

\* Vunfold()
DoVunfold ==
  \E o \in Oracle :
    /\ Bound
    /\ eng' = Vunfold(Start, o)
    /\ last' = Done("Vunfold", "query", "", FALSE, "vector", eng'.cache.rec)
    /\ UNCHANGED watch

\* Vunfold() on the engine constructed on a fold: the history keeps the
\* matrix and the truth
DoVunfoldOfFold ==
  \E o \in Oracle :
    /\ Bound
    /\ eng' = Vunfold(Start, o)
    /\ last' = Done("Unfold", "query", "", FALSE, "vector", last.out)
    /\ UNCHANGED watch

\* UnfoldWithErrors(withError, getWeights)
DoUnfoldWithErrors ==
  \E t \in ErrorTreatment, w \in BOOLEAN, o \in Oracle : \E toys \in ToysOf(t, o) :
    /\ Bound /\ Capped(t, o)
    /\ LET r == UnfoldWithErrors(Start, t, w, o, toys)
       IN /\ eng' = r.e
          /\ last' = Done("UnfoldWithErrors", "query", t, w, r.ret, <<>>)
          /\ UNCHANGED watch

\* the references Chi2 is called with: any when Chi2 is observed, else
\* the empty histogram, the reference having no effect on the engine
RefsOf == IF "Chi2" \in watch THEN Refs(eng.nt) ELSE {[i \in 1..eng.nt |-> 0]}

\* Chi2(hTrue, DoChi2)
DoChi2 ==
  \E t \in ErrorTreatment, o \in Oracle : \E toys \in ToysOf(t, o) :
    \E hTrue \in RefsOf :
      /\ Bound /\ Capped(t, o)
      /\ LET r == Chi2(Start, hTrue, t, o, toys)
         IN /\ eng' = r.e
            /\ last' = Done("Chi2", "query", t, FALSE, r.ret, <<hTrue, r.val>>)
            /\ UNCHANGED watch

\* EunfoldV(withError)
DoEunfoldV ==
  \E t \in ErrorTreatment, o \in Oracle : \E toys \in ToysOf(t, o) :
    /\ Bound /\ Capped(t, o)
    /\ LET r == EunfoldV(Start, t, o, toys)
       IN /\ eng' = r.e
          /\ last' = Done("EunfoldV", "query", t, FALSE, r.ret, r.val)
          /\ UNCHANGED watch

\* Eunfold(withError)
DoEunfold ==
  \E t \in ErrorTreatment, o \in Oracle : \E toys \in ToysOf(t, o) :
    /\ Bound /\ Capped(t, o)
    /\ LET r == Eunfold(Start, t, o, toys)
       IN /\ eng' = r.e
          /\ last' = Done("Eunfold", "query", t, FALSE, r.ret, r.out)
          /\ UNCHANGED watch

\* Wunfold(withError)
DoWunfold ==
  \E t \in ErrorTreatment, o \in Oracle : \E toys \in ToysOf(t, o) :
    /\ Bound /\ Capped(t, o)
    /\ LET r == Wunfold(Start, t, o, toys)
       IN /\ eng' = r.e
          /\ last' = Done("Wunfold", "query", t, TRUE, r.ret, r.out)
          /\ UNCHANGED watch

\* Hunfold(withError)
DoHunfold ==
  \E t \in ErrorTreatment, o \in Oracle : \E toys \in ToysOf(t, o) :
    /\ Bound /\ Capped(t, o)
    /\ LET r == Hunfold(Start, t, o, toys)
       IN /\ eng' = r.e
          /\ last' = Done("Hunfold", "query", t, FALSE, r.ret, r.out)
          /\ UNCHANGED watch

\* RunToys(ntoys, vx, vxe, chi2)
DoRunToys ==
  \E n \in 0..MaxToys : \E toys \in ToySeqs(n) :
    /\ Bound
    /\ LET r == RunToys(Start, toys)
       IN /\ eng' = r.e
          /\ last' = Done("RunToys", "other", eng.withError, FALSE, "void",
                          <<r.vx, r.vxe, r.chi2>>)
          /\ UNCHANGED watch

\* the step of RunToys that ends as r: the history keeps ntoys, the
\* outcomes drawn, vx and the records of the repetitions
RunToysRun(r, toys, reps) ==
  /\ eng' = r.e
  /\ last' = Done("RunToys", "other", eng.withError, FALSE, "void",
                  <<Len(toys), [i \in 1..Len(toys) |-> toys[i].o], r.vx, reps>>)
  /\ UNCHANGED watch

\* RunToys(ntoys, vx, vxe, chi2), observed repetition by repetition
DoRunToysRepetitions ==
  \E n \in 0..MaxToys : \E toys \in ToySeqs(n) :
    /\ Bound
    /\ RunToysRun(RunToys(Start, toys), toys, RunToysRepetitions(Start, toys))

\* RunToys(ntoys, vx, vxe, chi2) of an engine of RooFit histograms
DoRunToysRooFit ==
  \E n \in 0..MaxToys : \E toys \in ToySeqs(n) :
    /\ Bound
    /\ LET r == RunToysRooFit(Start, toys)
       IN /\ eng' = r.e
          /\ last' = Done("RunToys", "other", eng.withError, FALSE, "void",
                          <<r.vx, r.vxe, r.chi2>>)
          /\ UNCHANGED watch

\* RunToy(x, xe)
DoRunToy ==
  \E toy \in ToyOracle, ub \in {"garbage", "crash"} :
    /\ Bound
    /\ LET r == RunToy(Start, toy, ub)
       IN /\ eng' = r.e
          /\ last' = Done("RunToy", "other", eng.withError, FALSE, r.ret,
                          <<r.vx, r.vxe, r.chi2>>)
          /\ UNCHANGED watch

\* CalculateBias(method, ntoys, hTrue)
DoCalculateBias ==
  \E m \in BiasMethod :
    /\ Bound
    /\ eng' = CalculateBias(Start, m)
    /\ last' = Done("CalculateBias", "other", m, FALSE, "void", <<>>)
    /\ UNCHANGED watch

\* RooUnfoldT(rhs) with this engine as rhs: the history keeps the copy
DoCopy ==
  \E t \in ErrorTreatment :
    /\ Bound
    /\ eng' = Start
    /\ last' = Done("Copy", "other", "", FALSE, "void", <<CopyConstructed(Start, t)>>)
    /\ UNCHANGED watch

\* Assign(rhs) on a second engine with this engine as rhs: the history keeps
\* the second engine
DoAssign ==
  \E r \in Responses, h \in Hists(MaxBins), t \in ErrorTreatment :
    /\ Bound
    /\ eng' = Start
    /\ last' = Done("Assign", "other", "", FALSE, "void",
                    <<Assign(Setup(NewEngine(t), r, SubSeq(h, 1, r.nm)), Start)>>)
    /\ UNCHANGED watch

\* InvertMatrix(mat, inv, name, verbose): the history keeps the condition
\* number, the solver's status, and the matrix, the inverse and the return
\* value
DoInvertMatrix ==
  \E rows \in 1..MaxBins, cols \in 1..MaxBins, cond \in Conditions, okinv \in BOOLEAN :
    /\ eng' = Start
    /\ last' = Done("InvertMatrix", "other", cond, okinv, "int",
                    <<<<rows, cols>>, InvertMatrix(<<rows, cols>>, cond, okinv).inv,
                      InvertMatrix(<<rows, cols>>, cond, okinv).status>>)
    /\ UNCHANGED watch

\* the step of RunBiasAsimovToys(ntoys, vbias) that ends as r with ntoys = k
AsimovToysRun(r, k) ==
  /\ eng' = r.e
  /\ last' = Done("RunBiasAsimovToys", "other", "", FALSE, "void",
                  <<k, r.vbias, r.vmes, r.os, r.runs>>)
  /\ UNCHANGED watch

\* RunBiasAsimovToys(ntoys, vbias): the history keeps ntoys, the deviation
\* vectors, the measured vector of every inner repetition, what the
\* strategy would have done there, and the number of Unfold() calls
DoRunBiasAsimovToys ==
  \E k \in 0..MaxToys : \E toys \in AsimovToySeqs(k) :
    /\ Bound
    /\ AsimovToysRun(RunBiasAsimovToys(Start, toys), k)

\* the entries of a vector as fractions
AsFractions(dev) == [b \in 1..Len(dev) |-> <<dev[b], 1>>]

\* the step of RunBiasAsimovToys that ends as r: the history keeps, for
\* every deviation, the truth it is taken from, the deviation and the
\* unfolded vector
AsimovDeviationsRun(r) ==
  /\ eng' = r.e
  /\ last' = Done("RunBiasAsimovToysTH1", "other", "", FALSE, "void",
                  <<[idx \in 1..Len(r.vbias) |-> r.vtruth],
                    [idx \in 1..Len(r.vbias) |-> AsFractions(r.vbias[idx])],
                    r.recs>>)
  /\ UNCHANGED watch

\* RunBiasAsimovToys(ntoys, vbias) of an engine of TH1 histograms on a
\* response with a truth
DoRunBiasAsimovToysTruth ==
  \E k \in 0..MaxToys : \E toys \in AsimovOkSeqs(k) : \E vt \in AsimovTruths(eng.nt) :
    /\ Bound
    /\ AsimovDeviationsRun(RunBiasAsimovToysOn(Start, toys, vt))

\* the step of RunBiasAsimovToys for RooFitHist that ends as r
AsimovDeviationsRooFitRun(r) ==
  /\ eng' = r.e
  /\ last' = Done("RunBiasAsimovToysRooFit", "other", "", FALSE, "void",
                  <<r.outer, r.vbias, r.recs>>)
  /\ UNCHANGED watch

\* RunBiasAsimovToys(ntoys, vbias) of an engine of RooFit histograms
DoRunBiasAsimovToysRooFit ==
  \E k \in 0..MaxToys : \E toys \in AsimovOkSeqs(k) : \E vt \in AsimovTruths(eng.nt) :
    /\ Bound
    /\ AsimovDeviationsRooFitRun(RunBiasAsimovToysRooFit(Start, toys, vt))

\* the step of CalculateBias(kBiasAsimov) that ends as r; the history keeps
\* whether a reference was passed, the vectors, and the vectors r0 of the
\* same call without a reference
BiasAsimovRun(r, r0, hTrue) ==
  /\ eng' = r.e
  /\ last' = Done("CalculateBias", "other", kBiasAsimov, hTrue # <<>>, r.ret,
                  <<<<r.bias, r.sigbias>>, <<r0.bias, r0.sigbias>>>>)
  /\ UNCHANGED watch

\* CalculateBias(kBiasAsimov, ntoys, hTrue)
DoCalculateBiasAsimov ==
  \E k \in 0..MaxToys : \E toys \in AsimovOkSeqs(k) :
    \E vt \in AsimovTruths(eng.nt), hTrue \in HTrues(eng.nt), t \in {kNoError, kErrors} :
      /\ Bound
      /\ BiasAsimovRun(CalculateBiasAsimov(Start, hTrue, vt, toys, t),
                       CalculateBiasAsimov(Start, <<>>, vt, toys, t), hTrue)

\* the step of CalculateBias(method) that ends as r; the history keeps
\* whether a reference was passed, the measured histogram of the auxiliary
\* engine, the reference truth, the bias entries or pulls, and the unfolded
\* values they are made from
BiasValuesRun(r, method, hTrue) ==
  /\ eng' = r.e
  /\ last' = Done("CalculateBias", "other", method, hTrue # <<>>, r.ret,
                  <<r.aux, r.truth, r.bias, r.unfold>>)
  /\ UNCHANGED watch

\* CalculateBias(kBiasEstimator, ntoys, hTrue)
DoCalculateBiasEstimator ==
  \E vt \in AsimovTruths(eng.nt), hTrue \in HTrues(eng.nt), t \in {kNoError, kErrors},
     o \in Oracle :
    /\ Bound
    /\ BiasValuesRun(CalculateBiasEstimator(Start, hTrue, vt, t, o), kBiasEstimator, hTrue)

\* CalculateBias(kBiasClosure, ntoys, hTrue)
DoCalculateBiasClosure ==
  \E k \in 0..MaxToys : \E toys \in ToyResults(k, eng.nt) :
    \E vt \in AsimovTruths(eng.nt), hTrue \in HTrues(eng.nt), t \in {kNoError, kErrors},
       ub \in {"garbage", "crash"} :
      /\ Bound
      /\ BiasValuesRun(CalculateBiasClosure(Start, hTrue, vt, t, toys, ub),
                       kBiasClosure, hTrue)

\* Vbias()
DoVbias ==
  /\ eng' = Start
  /\ last' = Done("Vbias", "other", "", FALSE, Vbias(Start).ret, Vbias(Start).out)
  /\ UNCHANGED watch

\* Ebias()
DoEbias ==
  /\ eng' = Start
  /\ last' = Done("Ebias", "other", "", FALSE, Ebias(Start).ret, Ebias(Start).out)
  /\ UNCHANGED watch

Next ==
  \/ DoSetup
  \/ DoClearCache
  \/ DoForceRecalculation
  \/ DoSetNToys
  \/ DoVunfold
  \/ DoUnfoldWithErrors
  \/ DoChi2
  \/ DoEunfoldV
  \/ DoEunfold
  \/ DoWunfold
  \/ DoRunToys

Spec == Init /\ [][Next]_vars

NextSetters ==
  \/ DoSetup
  \/ DoSetupNull
  \/ DoSetResponseNull
  \/ DoSetResponse
  \/ DoSetMeasured
  \/ DoSetMeasuredVecErr
  \/ DoSetMeasuredVecCov
  \/ DoSetMeasuredCov
  \/ DoVunfold
  \/ DoUnfoldWithErrors
  \/ DoCalculateBias

SpecSetters == InitSetters /\ [][NextSetters]_vars

NextSetup ==
  \/ DoSetup
  \/ DoSetupNull
  \/ DoSetNToys
  \/ DoIncludeSystematics
  \/ DoVunfold
  \/ DoUnfoldWithErrors
  \/ DoCalculateBias

SpecSetup == InitSetters /\ [][NextSetup]_vars

NextToys ==
  \/ DoSetup
  \/ DoIncludeSystematics
  \/ DoVunfold
  \/ DoUnfoldWithErrors
  \/ DoRunToys
  \/ DoRunToysRooFit
  \/ DoRunToy

SpecToys == InitToys /\ [][NextToys]_vars

NextRepetitions ==
  \/ DoIncludeSystematics
  \/ DoVunfold
  \/ DoRunToysRepetitions

SpecRepetitions == InitRepetitions /\ [][NextRepetitions]_vars

NextMeasured ==
  \/ DoSetMeasuredCov
  \/ DoSetMeasuredVecCov
  \/ DoForceRecalculation
  \/ DoUnfoldWithErrors
  \/ DoEmeasured

SpecMeasured == InitMeasured /\ [][NextMeasured]_vars

NextSettings ==
  \/ DoSetNToys
  \/ DoIncludeSystematics
  \/ DoSetMeasuredCov
  \/ DoVunfold
  \/ DoSetup
  \/ DoCopy
  \/ DoAssign

SpecSettings == InitSettings /\ [][NextSettings]_vars

NextChi2 ==
  \/ DoForceRecalculation
  \/ DoSetNToys
  \/ DoUnfoldWithErrors
  \/ DoChi2

SpecChi2 == InitChi2 /\ [][NextChi2]_vars

NextAccessors ==
  \/ DoForceRecalculation
  \/ DoSetNToys
  \/ DoEunfoldV
  \/ DoEunfold
  \/ DoWunfold

SpecAccessors == InitAccessors /\ [][NextAccessors]_vars

NextResult ==
  \/ DoSetup
  \/ DoForceRecalculation
  \/ DoSetNToys
  \/ DoVunfold
  \/ DoHunfold

SpecResult == InitResult /\ [][NextResult]_vars

NextBias ==
  \/ DoSetup
  \/ DoClearCache
  \/ DoForceRecalculation
  \/ DoRunToys
  \/ DoVunfold
  \/ DoCalculateBias
  \/ DoVbias
  \/ DoEbias

SpecBias == InitBias /\ [][NextBias]_vars

NextCopy ==
  \/ DoSetNToys
  \/ DoVunfold
  \/ DoCalculateBias
  \/ DoCopy
  \/ DoAssign

SpecCopy == InitCopy /\ [][NextCopy]_vars

NextInvert ==
  \/ DoInvertMatrix

SpecInvert == InitInvert /\ [][NextInvert]_vars

NextAsimov ==
  \/ DoVunfold
  \/ DoRunBiasAsimovToys

SpecAsimov == InitAsimov /\ [][NextAsimov]_vars

NextAsimovTruth ==
  \/ DoVunfold
  \/ DoRunBiasAsimovToysTruth
  \/ DoRunBiasAsimovToysRooFit

SpecAsimovTruth == InitAsimovTruth /\ [][NextAsimovTruth]_vars

NextBiasValues ==
  \/ DoCalculateBiasEstimator
  \/ DoCalculateBiasClosure

SpecBiasValues == InitBiasValues /\ [][NextBiasValues]_vars

NextBiasAsimov ==
  \/ DoCalculateBiasAsimov

SpecBiasAsimov == InitBiasValues /\ [][NextBiasAsimov]_vars

NextFold ==
  \/ DoVunfoldOfFold

SpecFold == InitFold /\ [][NextFold]_vars

\* ------------------------------------------------------------------ claims
\* the query operations as last records them
Queries == {"Vunfold", "UnfoldWithErrors", "query"}

\* the operations that rebind the response or the measured input on their own
InputSetters ==
  {"SetResponse", "SetMeasured", "SetMeasuredVecErr", "SetMeasuredVecCov",
   "SetMeasuredCov"}

C3_TrueMeansUnfolded ==
  (last.op = "UnfoldWithErrors" /\ last.ret = "true")
    => (eng.cache.unfolded /\ Len(eng.cache.rec) = eng.nt)

\* C4: on an unfolded engine, UnfoldWithErrors with a treatment other than the
\* one last used leaves the unfolded flag set and the result vector
\* unchanged, and does not invoke Unfold().
C4_OtherTreatmentKeepsResult ==
  [][(eng.cache.unfolded /\ last'.op = "UnfoldWithErrors" /\ last'.t # eng.withError)
       => /\ eng'.cache.unfolded
          /\ eng'.cache.rec = eng.cache.rec
          /\ eng'.acalls = 0]_vars

\* C5: right after a successful Setup(response, measured) every validity flag
\* of the cache is false, whatever had been computed before.
C5_SetupClearsFlags ==
  (last.op = "Setup" /\ last.ret = "void") => ~Dirty(eng)

\* a successful Setup of an engine that had flags set
C5_Witness ==
  last.op = "Setup" /\ last.ret = "void" /\ last.was /\ ~Dirty(eng)

\* C6: each of SetResponse, SetMeasured (histogram), SetMeasured (vector,
\* errors), SetMeasured (vector, covariance) and SetMeasuredCov leaves every
\* validity flag of the cache false.
C6_SettersClearFlags ==
  last.op \in InputSetters => ~Dirty(eng)

\* C7: every validity flag that is true has its field in the right shape:
\* a result of length nt, nt x nt covariance, weight and toy error matrices,
\* variances of length nt, bias and bias uncertainty of length nt.
C7_FlagsHaveShapedFields ==
  /\ eng.cache.unfolded => Len(eng.cache.rec) = eng.nt
  /\ eng.cache.haveCov => eng.cache.cov = <<eng.nt, eng.nt>>
  /\ eng.cache.haveWgt => eng.cache.wgt = <<eng.nt, eng.nt>>
  /\ eng.cache.haveErrors => eng.cache.variances = eng.nt
  /\ eng.cache.have_err_mat => eng.cache.err_mat = <<eng.nt, eng.nt>>
  /\ eng.cache.haveBias => (eng.cache.bias = eng.nt /\ eng.cache.sigbias = eng.nt)

\* C8 as stated: the unfolded flag and the fail flag are never both true.
C8_NeverUnfoldedAndFailed ==
  ~(eng.cache.unfolded /\ eng.cache.fail)

\* C8: the unfolded flag and the fail flag are both true only when an error
\* computation of UnfoldWithErrors has failed on the unfolded result in this
\* cache generation; a failed Unfold() never leaves the unfolded flag set.
C8_BothOnlyAfterFailedErrors ==
  /\ (eng.cache.unfolded /\ eng.cache.fail) => eng.cache.efail
  /\ eng.cache.ufail => ~eng.cache.unfolded

\* an unfolded engine whose error computation has failed
C8_Witness ==
  /\ eng.cache.unfolded /\ eng.cache.fail /\ eng.cache.efail
  /\ last.op = "UnfoldWithErrors" /\ last.ret = "false"

\* C9: once the fail flag is set it stays set across every query operation.
C9_FailSurvivesQueries ==
  [][(eng.cache.fail /\ last'.op \in Queries) => eng'.cache.fail]_vars

\* C10: UnfoldWithErrors returns true only if the quantity its treatment
\* requires is flagged valid at return (the weights when asked for with
\* kErrors or kCovariance, else the variances for kErrors, the covariance for
\* kCovariance, the toy error matrix for kCovToy, nothing for kNoError and
\* kDefault), and whenever it returns false the fail flag is set.
C10_TrueOnlyIfValid ==
  last.op = "UnfoldWithErrors" =>
    /\ last.ret = "true" =>
         IF last.w /\ last.t \in {kErrors, kCovariance} THEN eng.cache.haveWgt
         ELSE IF last.t \in {kErrors, kRooFit} THEN eng.cache.haveErrors
         ELSE IF last.t = kCovariance THEN eng.cache.haveCov
         ELSE IF last.t = kCovToy THEN eng.cache.have_err_mat
         ELSE TRUE
    /\ last.ret = "false" => eng.cache.fail

\* an UnfoldWithErrors that returned true for the weights of kCovariance
C10_Witness ==
  /\ last.op = "UnfoldWithErrors" /\ last.ret = "true"
  /\ last.w /\ last.t = kCovariance /\ eng.cache.haveWgt

\* C11: after an error computation of UnfoldWithErrors has failed on the
\* unfolded result, the same request made next in the same generation returns
\* false again and calls none of the covariance, inversion and toy routines.
C11_NoSecondErrorCall ==
  [][(/\ eng.cache.unfolded /\ eng.cache.fail /\ eng.cache.efail
      /\ last.op = "UnfoldWithErrors" /\ last.ret = "false"
      /\ last'.op = "UnfoldWithErrors" /\ last'.t = last.t /\ last'.w = last.w)
       => (last'.ret = "false" /\ eng'.ecalls = 0)]_vars

\* C12: when RunToys returns, for any number of toys, the error treatment
\* of the engine is what it was before the call, every validity flag is false
\* and no measured vector is cached, so that the next Vunfold copies the
\* nominal measured distribution.
C12_RunToysRestores ==
  /\ [][last'.op = "RunToys"
          => /\ eng'.withError = eng.withError
             /\ ~Dirty(eng') /\ eng'.cache.vMes = <<>>
             /\ eng'.meas = eng.meas]_vars
  /\ [][(last.op = "RunToys" /\ last'.op = "Vunfold" /\ eng'.cache.unfolded)
          => \A i \in 1..Min(eng.nm, eng.nt) : eng'.cache.rec[i] = eng.meas[1][i]]_vars

\* a RunToys of two toys returned on an engine that had valid flags and the
\* treatment kCovariance
C12_Witness ==
  /\ last.op = "RunToys" /\ last.was /\ Len(last.out[1]) = 2
  /\ last.t = kCovariance /\ eng.withError = kCovariance
  /\ ~Dirty(eng) /\ eng.tcalls = 1

\* C13: the error list and the chi-squared list RunToys returns hold no entry
\* of a repetition whose UnfoldWithErrors returned false: no zero error vector
\* (what EunfoldV returns then) and, beside none, no chi-squared entry.
C13_FailedToyOmitsErrors ==
  last.op = "RunToys" =>
    /\ Len(last.out[3]) = Len(last.out[2])
    /\ \A i \in 1..Len(last.out[2]) : last.out[2][i] # "zero"

\* C14: RunToy runs one repetition and returns that repetition's result,
\* error vector and chi-squared, under every error treatment: each of the
\* three lists of RunToys has the entry RunToy reads.
C14_RunToyReadsProduced ==
  last.op = "RunToy" =>
    /\ Len(last.out[1]) = 1 /\ Len(last.out[2]) = 1 /\ Len(last.out[3]) = 1
    /\ last.ret = last.out[3][1]

\* C15: with at most one toy configured, UnfoldWithErrors(kCovToy) runs no
\* toy repetition, leaves the toy error matrix flagged unavailable and
\* returns false.
C15_NoToysNoMatrix ==
  (last.op = "UnfoldWithErrors" /\ last.t = kCovToy /\ eng.NToys <= 1)
    => (eng.tcalls = 0 /\ ~eng.cache.have_err_mat /\ last.ret = "false")

RECURSIVE SumX(_, _, _)
\* sum over the toys k..N of x_k[i], for the reference formula of C16
SumX(xs, i, k) ==
  IF k > Len(xs) THEN <<0>> ELSE Plus(At(xs[k], i), SumX(xs, i, k + 1))

RECURSIVE SumXX(_, _, _, _)
\* sum over the toys k..N of x_k[i] * x_k[j], for the reference formula of C16
SumXX(xs, i, j, k) ==
  IF k > Len(xs) THEN <<0>>
  ELSE Plus(Times(At(xs[k], i), At(xs[k], j)), SumXX(xs, i, j, k + 1))

\* C16: with N > 1 toys, after UnfoldWithErrors(kCovToy) returned true having
\* run its toys, the cached toy error matrix is nt x nt, its entry (i,j) is
\* (sum_k x_k[i] x_k[j] - (sum_k x_k[i]) (sum_k x_k[j]) / N) / (N - 1) over
\* the N toy results x_k (compared after multiplying by N (N - 1)), and the
\* matrix is symmetric.
C16_ToyCovariance ==
  (/\ last.op = "UnfoldWithErrors" /\ last.t = kCovToy /\ last.ret = "true"
   /\ eng.NToys > 1 /\ Len(eng.toyx) = eng.NToys)
    => /\ eng.cache.err_mat = <<eng.nt, eng.nt>>
       /\ Len(eng.cache.err_num) = eng.nt
       /\ \A i \in 1..Len(eng.cache.err_num) :
            /\ Len(eng.cache.err_num[i]) = eng.nt
            /\ \A j \in 1..Len(eng.cache.err_num[i]) :
                 /\ eng.cache.err_num[i][j] =
                      Minus(Times(<<eng.NToys>>, SumXX(eng.toyx, i, j, 1)),
                            Times(SumX(eng.toyx, i, 1), SumX(eng.toyx, j, 1)))
                 /\ eng.cache.err_num[i][j] = eng.cache.err_num[j][i]


\* C17: Chi2 returns -1 whenever the error computation for the requested
\* treatment failed, and never returns a value computed from the result of
\* a failed matrix inversion.
C17_Chi2MinusOneOnFailure ==
  last.op = "Chi2" =>
    /\ (eng.cache.fail /\ eng.cache.efail) => last.ret = "-1"
    /\ last.ret # "chi2 of failed inverse"


\* C18: when the inversion of the unfolded covariance has failed in this
\* cache generation, UnfoldWithErrors(kCovariance) returns false, whether or
\* not the weight matrix is requested.
C18_InversionFailureFails ==
  (last.op = "UnfoldWithErrors" /\ last.t = kCovariance /\ eng.cache.ifail)
    => last.ret = "false"


\* C19: whenever the error computation succeeds, Chi2 against a reference
\* equal to the engine's own unfolded result is exactly 0, for the
\* treatments kNoError, kErrors, kCovariance and kCovToy.
C19_Chi2OfOwnResultIsZero ==
  (/\ last.op = "Chi2" /\ last.ret = "chi2"
   /\ last.t \in {kNoError, kErrors, kCovariance, kCovToy}
   /\ eng.cache.rec0 # <<>> /\ last.out[1] = eng.cache.rec0[1])
    => (last.out[2] # NaN /\ last.out[2][1] = 0 /\ last.out[2][2] # 0)


\* the square of the error of bin i that Chi2 used for the diagonal
\* treatment of the last call, read from the cache
C20_Error2(i) ==
  IF last.t = kNoError
    THEN (IF eng.cache.rec[i] < 0 THEN 0 - eng.cache.rec[i] ELSE eng.cache.rec[i])
    ELSE (IF eng.cache.var_v[i][1] < 0 THEN 0 - eng.cache.var_v[i][1]
          ELSE eng.cache.var_v[i][1])

\* the residual of bin i of the last call
C20_Residual(i) == eng.cache.rec[i] - last.out[1][i]

RECURSIVE C20_Sum(_)
\* the sum over the bins i.._nt with a positive error of (residual/error)^2,
\* as a fraction <<n, d>>
C20_Sum(i) ==
  IF i > eng.nt THEN <<0, 1>>
  ELSE IF C20_Error2(i) <= 0 THEN C20_Sum(i + 1)
  ELSE <<C20_Sum(i + 1)[1] * C20_Error2(i)
           + C20_Residual(i) * C20_Residual(i) * C20_Sum(i + 1)[2],
         C20_Sum(i + 1)[2] * C20_Error2(i)>>

C21_EunfoldVNonNegative ==
  (last.op = "EunfoldV" /\ last.t \in {kNoError, kErrors, kCovariance, kCovToy})
    => /\ last.ret # "throw"
       /\ Len(last.out) = eng.nt
       /\ \A i \in 1..Len(last.out) :
            last.out[i] # NaN /\ last.out[i][1] >= 0 /\ last.out[i][2] > 0


\* C22: for every error treatment and every engine state, Chi2, EunfoldV,
\* Eunfold and Wunfold return a value to the caller and never raise.
C22_AccessorsNeverRaise ==
  last.op \in {"Chi2", "EunfoldV", "Eunfold", "Wunfold"} => last.ret # "throw"


\* C23: after the strategy's Unfold() has failed, Vunfold returns a
\* zero-filled vector of length nt and Hunfold returns a truth-shaped
\* histogram without raising.
C23_FailedUnfoldIsTruthShaped ==
  /\ (last.op = "Vunfold" /\ eng.cache.ufail)
       => last.out = [i \in 1..eng.nt |-> 0]
  /\ (last.op = "Hunfold" /\ eng.cache.ufail)
       => (last.ret # "throw" /\ last.out = <<eng.nt>>)


\* the unit matrix of n x n bins
C24_Identity(n) == [i \in 1..n |-> [j \in 1..n |-> IF i = j THEN 1 ELSE 0]]

\* C24: for every response with nm = nt and every truth t, when the
\* measured vector is the exact fold of t through the response, the result
\* of the base algorithm equals t in the first min(nm,nt) bins.
C24_RecoversTruth ==
  (last.op = "Unfold" /\ eng.cache.unfolded)
    => \A i \in 1..Min(eng.nm, eng.nt) : eng.cache.rec[i] = last.out[2][i]

\* C24 amended: the same for the response whose matrix is the unit matrix.
C24_RecoversTruthOfIdentity ==
  (last.op = "Unfold" /\ eng.cache.unfolded /\ last.out[1] = C24_Identity(eng.nt))
    => \A i \in 1..Min(eng.nm, eng.nt) : eng.cache.rec[i] = last.out[2][i]

\* C24 witness: a truth of two different nonzero bins recovered through the
\* unit matrix
C24_Witness ==
  /\ last.op = "Unfold" /\ eng.cache.unfolded /\ eng.nt = 2
  /\ last.out[1] = C24_Identity(2) /\ last.out[2] = <<1, 2>>
  /\ eng.cache.rec = <<1, 2>>

\* C25: Setup and SetResponse called with a null response raise an error,
\* whatever the engine's state before and whatever the measured argument;
\* a Setup or SetResponse that returned normally left a response bound.
C25_NullResponseRaises ==
  /\ (last.op \in {"Setup", "SetResponse"} /\ last.t = "null") => last.ret = "throw"
  /\ (last.op \in {"Setup", "SetResponse"} /\ last.ret # "throw") => eng.res # <<>>

\* Setup(0, meas) on an engine that held computed quantities has thrown
C25_Witness ==
  last.op = "Setup" /\ last.t = "null" /\ last.ret = "throw" /\ last.was

\* SetResponse(0) on a bound engine has thrown and left the binding
C25_WitnessSetResponse ==
  last.op = "SetResponse" /\ last.t = "null" /\ last.ret = "throw" /\ eng.res # <<>>

\* C26: CalculateBias with a bias method that is none of estimator, closure
\* and asimov raises an error and leaves the bias flagged as not computed.
C26_UnknownMethodRaises ==
  (last.op = "CalculateBias" /\ last.t = kBiasOther)
    => (last.ret = "throw" /\ ~eng.cache.haveBias)

\* the operations that reset the cache
C27_CacheResets == {"ClearCache", "ForceRecalculation", "RunToys", "Setup"}

\* one step of the engine, as C27 has it
C27_Step ==
  /\ last'.op \in {"Vbias", "Ebias"}
       => /\ (last'.ret = "throw") <=> ~eng.cache.haveBias
          /\ eng'.cache.haveBias = eng.cache.haveBias
  /\ (last'.op = "Vbias" /\ last'.ret # "throw") => last'.out = <<eng.cache.bias>>
  /\ (last'.op = "Ebias" /\ last'.ret # "throw") => last'.out = <<eng.cache.sigbias>>
  /\ (last'.op = "CalculateBias" /\ last'.ret = "void") => eng'.cache.haveBias
  /\ last'.op \in C27_CacheResets => ~eng'.cache.haveBias
  /\ (eng'.cache.haveBias /\ ~eng.cache.haveBias) => last'.op = "CalculateBias"
  /\ (~eng'.cache.haveBias /\ eng.cache.haveBias) => last'.op \in C27_CacheResets

\* C27: Vbias and Ebias raise exactly when no CalculateBias has completed
\* since the last cache reset: the flag they test is raised by a completed
\* CalculateBias and by nothing else, dropped by every cache reset (a toy run
\* among them) and by nothing else; with the flag up they return the
\* stored vectors.
C27_BiasRaisesExactlyWhenNotComputed == [][C27_Step]_vars

\* Vbias has returned the vector stored by a CalculateBias
C27_Witness ==
  /\ last.op = "Vbias" /\ last.ret = "vector" /\ eng.cache.haveBias
  /\ last.out = <<eng.nt>> /\ eng.nt = 2

\* Vbias has thrown on an engine whose cache a toy run has reset
C27_WitnessRaised ==
  last.op = "Vbias" /\ last.ret = "throw" /\ ~eng.cache.haveBias /\ eng.nt = 2

\* C28: an engine copy-constructed or assigned from a source whose cache
\* holds computed quantities has the source's validity flags and equal
\* cached contents.
C28_CopyIsDeep ==
  (last.op \in {"Copy", "Assign"} /\ eng.cache.unfolded)
    => /\ last.out[1].cache.unfolded = eng.cache.unfolded
       /\ last.out[1].cache.haveCov = eng.cache.haveCov
       /\ last.out[1].cache.haveWgt = eng.cache.haveWgt
       /\ last.out[1].cache.haveErrors = eng.cache.haveErrors
       /\ last.out[1].cache.have_err_mat = eng.cache.have_err_mat
       /\ last.out[1].cache.haveBias = eng.cache.haveBias
       /\ last.out[1].cache.fail = eng.cache.fail
       /\ last.out[1].cache.rec = eng.cache.rec
       /\ last.out[1].cache.cov = eng.cache.cov
       /\ last.out[1].cache.wgt = eng.cache.wgt
       /\ last.out[1].cache.cov_d = eng.cache.cov_d
       /\ last.out[1].cache.var_v = eng.cache.var_v
       /\ last.out[1].cache.err_num = eng.cache.err_num
       /\ last.out[1].cache.bias = eng.cache.bias
       /\ last.out[1].cache.sigbias = eng.cache.sigbias

\* C29: InvertMatrix returns 0 exactly when the solver reports failure,
\* whatever the condition number; otherwise 2 for a negative condition
\* number, 3 for one above 1e17 and 1 else, and in these three cases the
\* output has the dimensions (columns x rows) of the input.
C29_InvertMatrixStatus ==
  last.op = "InvertMatrix"
    => /\ (last.out[3] = 0) <=> ~last.w
       /\ last.w => /\ last.out[3] = (IF last.t = "negative" THEN 2
                                       ELSE IF last.t = "large" THEN 3 ELSE 1)
                    /\ last.out[2] = <<last.out[1][2], last.out[1][1]>>

\* a failed inversion of a 1 x 2 matrix with a negative condition number
\* has returned 0
C29_Witness ==
  /\ last.op = "InvertMatrix" /\ ~last.w /\ last.t = "negative"
  /\ last.out[1] = <<1, 2>> /\ last.out[3] = 0

\* an inversion of a 1 x 2 matrix with a large condition number has returned
\* 3 and a 2 x 1 inverse
C29_WitnessLarge ==
  /\ last.op = "InvertMatrix" /\ last.w /\ last.t = "large"
  /\ last.out = <<<<1, 2>>, <<2, 1>>, 3>>

\* C30: the Asimov double-toy procedure with ntoys = k records exactly k*k
\* deviation vectors, runs Unfold() once per inner repetition (k*k times in
\* all), and every deviation comes from the unfolding of that repetition's
\* own randomized measured vector.
C30_AsimovUnfoldsEveryRepetition ==
  last.op = "RunBiasAsimovToys"
    => /\ Len(last.out[2]) = last.out[1] * last.out[1]
       /\ last.out[5] = last.out[1] * last.out[1]
       /\ \A idx \in 1..Len(last.out[2]) :
            last.out[4][idx] = "ok"
              => \A b \in 1..Min(eng.nm, eng.nt) :
                   last.out[2][idx][b] = 0 - last.out[3][idx][b]

\* what holds of the procedure: k*k deviation vectors are recorded
C30_AsimovRecordsEveryRepetition ==
  last.op = "RunBiasAsimovToys" => Len(last.out[2]) = last.out[1] * last.out[1]

\* C31: every deviation recorded by the Asimov double-toy protocol is
\* relative to the outer truth: in every bin where that truth is positive
\* it is (truth - unfolded) / truth, for both kinds of histogram.
C31_DeviationIsRelative ==
  last.op \in {"RunBiasAsimovToysTH1", "RunBiasAsimovToysRooFit"}
    => \A idx \in 1..Len(last.out[2]) : \A b \in 1..Len(last.out[3][idx]) :
         last.out[1][idx][b] > 0
           => last.out[2][idx][b][1] * last.out[1][idx][b]
                = (last.out[1][idx][b] - last.out[3][idx][b]) * last.out[2][idx][b][2]

\* what holds: the deviations of the RooFitHist variant are relative
C31_RooFitDeviationIsRelative ==
  last.op = "RunBiasAsimovToysRooFit"
    => \A idx \in 1..Len(last.out[2]) : \A b \in 1..Len(last.out[3][idx]) :
         last.out[1][idx][b] > 0
           => last.out[2][idx][b][1] * last.out[1][idx][b]
                = (last.out[1][idx][b] - last.out[3][idx][b]) * last.out[2][idx][b][2]

\* C32: under the Asimov protocol the bias and bias-uncertainty vectors of
\* CalculateBias are those of the same call without a reference truth,
\* whatever reference was supplied.
C32_AsimovIgnoresReference ==
  (last.op = "CalculateBias" /\ last.t = kBiasAsimov) => last.out[1] = last.out[2]

\* CalculateBias(kBiasAsimov, 2, hTrue) with a reference has stored the
\* means of four deviations, not all of them zero
C32_Witness ==
  /\ last.op = "CalculateBias" /\ last.t = kBiasAsimov /\ last.w
  /\ last.out[1][1][1][2] = 4 /\ last.out[1][1][1][1] # 0
  /\ last.out[1] = last.out[2]

\* C33: under the Estimator and Closure protocols the measured
\* distribution the auxiliary engine unfolds is the fold through the
\* response of the reference truth used: hTrue when one is supplied, the
\* truth of the response otherwise.
C33_AuxiliaryUnfoldsFoldOfReference ==
  (last.op = "CalculateBias" /\ last.t \in {kBiasEstimator, kBiasClosure})
    => last.out[1] = Vfolded(eng, last.out[2])

\* what holds: without a reference the auxiliary engine unfolds the fold of
\* the truth of the response
C33_WithoutReference ==
  (last.op = "CalculateBias" /\ last.t \in {kBiasEstimator, kBiasClosure} /\ ~last.w)
    => last.out[1] = Vfolded(eng, last.out[2])

\* C34: under the Closure protocol a pull is recorded for toy i and bin j
\* exactly when the toy-unfolded value is non-zero, and no recorded pull
\* has a zero divisor.
C34_PullIffToyResultNonZero ==
  (last.op = "CalculateBias" /\ last.t = kBiasClosure /\ last.ret = "void")
    => \A i \in 1..Len(last.out[3]) : \A j \in 1..Len(last.out[3][i]) :
         /\ last.out[3][i][j].rec <=> (last.out[4][i][j] # 0)
         /\ last.out[3][i][j].rec => last.out[3][i][j].val[2] # 0

C36_EmeasuredOfMeasuredCov ==
  (last.op = "Emeasured" /\ last.w)
    => \A i \in 1..eng.nm :
         last.out[i] = IF AtD(covmeas(eng), i) # NaN /\ AtD(covmeas(eng), i)[1] > 0
                         THEN sqrt(covmeas(eng)[i]) ELSE <<0>>

\* C37: CalculateBias, under any protocol, changes only the bias vector, the
\* bias-uncertainty vector and the have-bias flag of the engine it is called
\* on: the other cache fields (flags, result, covariance, weight, variances,
\* toy errors, measured vectors), the error treatment, the measured
\* histogram, the response and the settings are as before.
C37_CalculateBiasFrame ==
  [][last'.op = "CalculateBias"
       => /\ [eng'.cache EXCEPT !.bias = eng.cache.bias,
                                !.sigbias = eng.cache.sigbias,
                                !.haveBias = eng.cache.haveBias] = eng.cache
          /\ eng'.withError = eng.withError
          /\ eng'.meas = eng.meas /\ eng'.res = eng.res
          /\ eng'.nm = eng.nm /\ eng'.nt = eng.nt
          /\ eng'.covMes = eng.covMes /\ eng'.dosys = eng.dosys
          /\ eng'.NToys = eng.NToys]_vars

\* CalculateBias has run under the closure protocol on an engine that held
\* an unfolded result and still holds it
C37_Witness ==
  /\ last.op = "CalculateBias" /\ last.t = kBiasClosure /\ last.was
  /\ eng.cache.unfolded /\ eng.cache.haveBias
  /\ \E b \in 1..Len(eng.cache.rec) : eng.cache.rec[b] > 0

C38_WitnessSetup ==
  /\ last.op = "Setup" /\ last.was
  /\ eng.NToys = DefaultNToys /\ eng.dosys = kNoSystematics /\ eng.covMes = <<>>
  /\ eng.withError # kNoError

====
